---------------------------- MODULE Spec2Model ----------------------------
(***************************************************************************)
(* paydate-pilot: transaction ingestion, contract payment schedule and      *)
(* cash-flow projection.                                                    *)
(*                                                                          *)
(* Dates are day numbers (days since 1970-01-01, local calendar); a JS Date *)
(* built by new Date(y, m, d) is the day number MkDate(y, m, d).  Money is  *)
(* an integer: currency units in the projection, cents in the ingestion of  *)
(* files.  Strings are sequences of character codes.                        *)
(***************************************************************************)
EXTENDS Integers, Sequences, FiniteSets, TLC

VARIABLES
    today,          \* the wall clock's local calendar day (new Date())
    tick,           \* the wall clock's milliseconds into the day (Date.now())
    nthCall,        \* last call of getNthBusinessDayAfter: [from, n, result]
    schedCall,      \* last call of getNextScheduledPaymentDate: [today, period]
    billsBeforePayday,  \* useFinancialProjection's first argument
    currentBalance,     \* its second argument
    nextCommission,     \* its third argument: a PendingCommission or None (null)
    projection,         \* the FinancialProjection it returned, or None
    rawData,            \* Index: the stored content of the uploaded CSV file
    settings,           \* Index: the settings; startingBalance is in cents
    zoneWest,           \* whether the local time zone lies west of Greenwich
    processed,          \* the last two results computed from rawData, oldest first
    callArgs,           \* the arguments of a function called on its own
    callResult,         \* what that call returned, or None before it
    transactionOverrides,   \* Index: the overrides of category and isRecurring, by id
    paydayInfo,     \* useNextPayday: what its memo holds, or None before a render
    storedBills,            \* useBills: bills, in the order of the list
    dismissedSuggestions,   \* useBills: the vendor keys dismissed
    ignoredVendors,         \* useBills: the vendor keys ignored
    lastRemoved     \* the vendor of the bill removed last, while it is ignored, or None

clockVars == <<today, tick>>
schedVars == <<nthCall, schedCall>>
projVars  == <<billsBeforePayday, currentBalance, nextCommission, projection>>
ingestVars == <<rawData, settings, zoneWest, processed>>
callVars == <<callArgs, callResult>>
overrideVars == <<transactionOverrides>>
paydayVars == <<paydayInfo>>
billVars == <<storedBills, dismissedSuggestions, ignoredVendors, lastRemoved>>
vars == <<clockVars, schedVars, projVars, ingestVars, callVars, overrideVars, paydayVars, billVars>>

None == [none |-> TRUE]

\* Math.max and Math.min of two numbers.
Max(a, b) == IF a >= b THEN a ELSE b
Min(a, b) == IF a <= b THEN a ELSE b

(***************************************************************************)
(* Strings: a string is the sequence of its character codes.                *)
(***************************************************************************)

\* The printable ASCII characters in runs of consecutive codes: 32 to 33,
\* 35 to 91, 93 to 95 and 97 to 126.  The double quote is QUOTE; the
\* backslash and the grave accent occur in no text of the program.
PrintableRuns ==
    << [first |-> 32, chars |->
    << " ", "!" >>],
       [first |-> 35, chars |->
    << "#", "$", "%", "&", "'", "(", ")", "*", "+", ",",
       "-", ".", "/", "0", "1", "2", "3", "4", "5", "6",
       "7", "8", "9", ":", ";", "<", "=", ">", "?", "@",
       "A", "B", "C", "D", "E", "F", "G", "H", "I", "J",
       "K", "L", "M", "N", "O", "P", "Q", "R", "S", "T",
       "U", "V", "W", "X", "Y", "Z", "[" >>],
       [first |-> 93, chars |->
    << "]", "^", "_" >>],
       [first |-> 97, chars |->
    << "a", "b", "c", "d", "e", "f", "g", "h", "i", "j",
       "k", "l", "m", "n", "o", "p", "q", "r", "s", "t",
       "u", "v", "w", "x", "y", "z", "{", "|", "}", "~" >>] >>

\* The code of a printable ASCII character (String.charCodeAt).
CodeIn(runs) ==
    LET run(c) == CHOOSE r \in DOMAIN runs :
                      \E i \in DOMAIN runs[r].chars : runs[r].chars[i] = c
        pos(r, c) == CHOOSE i \in DOMAIN runs[r].chars : runs[r].chars[i] = c
        code(r, c) == runs[r].first + pos(r, c) - 1
    IN  [c \in UNION {{runs[r].chars[i] : i \in DOMAIN runs[r].chars} : r \in DOMAIN runs} |->
            code(run(c), c)]

Code == CodeIn(PrintableRuns)

\* The string spelled by a tuple of one-character strings.
Str(chars) == [i \in 1..Len(chars) |-> Code[chars[i]]]

NEWLINE == 10
QUOTE == 34
IsSpaceChar(c) == c \in {9, 10, 11, 12, 13, 32}
IsDigitChar(c) == c >= 48 /\ c <= 57
IsUpperChar(c) == c >= 65 /\ c <= 90
IsLowerChar(c) == c >= 97 /\ c <= 122

toLowerCase(str) == [i \in 1..Len(str) |-> IF IsUpperChar(str[i]) THEN str[i] + 32 ELSE str[i]]
toUpperCase(str) == [i \in 1..Len(str) |-> IF IsLowerChar(str[i]) THEN str[i] - 32 ELSE str[i]]

\* The number of white-space characters from position i in direction step.
RECURSIVE SpaceRun(_, _, _)
SpaceRun(str, i, step) ==
    IF i >= 1 /\ i <= Len(str) /\ IsSpaceChar(str[i])
    THEN 1 + SpaceRun(str, i + step, step)
    ELSE 0

\* String.trim: the string without its leading and trailing white space.
trim(str) == SubSeq(str, 1 + SpaceRun(str, 1, 1), Len(str) - SpaceRun(str, Len(str), -1))

\* Whether pat occurs in str at position i.
OccursAt(str, pat, i) ==
    /\ i >= 1
    /\ i + Len(pat) - 1 <= Len(str)
    /\ \A k \in 1..Len(pat) : str[i + k - 1] = pat[k]

startsWith(str, pat) == OccursAt(str, pat, 1)

\* String.includes: pat occurs somewhere in str.
includes(str, pat) ==
    \/ pat = <<>>
    \/ \E i \in 1..(Len(str) - Len(pat) + 1) :
          str[i] = pat[1] /\ SubSeq(str, i, i + Len(pat) - 1) = pat

\* The pieces of str between the positions in cuts, in order.
SplitAt(str, cuts) ==
    LET cut(k) == IF k = 0 THEN 0
                  ELSE IF k > Cardinality(cuts) THEN Len(str) + 1
                  ELSE CHOOSE i \in cuts : Cardinality({j \in cuts : j < i}) = k - 1
    IN  [k \in 1..(Cardinality(cuts) + 1) |-> SubSeq(str, cut(k - 1) + 1, cut(k) - 1)]

\* String.split(sep) for a one-character separator.
split(str, sep) == SplitAt(str, {i \in 1..Len(str) : str[i] = sep})

\* String.padStart(2, '0')
padStart2(str) == IF Len(str) < 2 THEN [i \in 1..(2 - Len(str)) |-> 48] \o str ELSE str

\* The decimal digits of a natural number (Number.toString of an integer).
RECURSIVE NatToStr(_)
NatToStr(n) == IF n < 10 THEN << 48 + n >> ELSE NatToStr(n \div 10) \o << 48 + (n % 10) >>

\* parseInt of a string of decimal digits.
RECURSIVE DigitsToNat(_, _)
DigitsToNat(str, acc) ==
    IF str = <<>> THEN acc
    ELSE DigitsToNat(Tail(str), 10 * acc + (Head(str) - 48))

parseInt(str) == DigitsToNat(str, 0)

(***************************************************************************)
(* 32-bit words and JS number arithmetic.  A word is <<hi, lo>>, two 16-bit  *)
(* halves, so that no intermediate value leaves the range of the checker's   *)
(* integers.                                                                 *)
(***************************************************************************)

HALF == 65536

\* Bitwise exclusive or of two naturals below 2^bits.
RECURSIVE BitXor(_, _, _)
BitXor(a, b, bits) ==
    IF bits = 0 THEN 0
    ELSE ((a + b) % 2) + 2 * BitXor(a \div 2, b \div 2, bits - 1)

\* The exclusive or of two 7-bit values, tabulated.
XorTable == [a \in 0..127 |-> [b \in 0..127 |-> BitXor(a, b, 7)]]

\* hash ^= charCode, for a character code below 2^16.
WordXor(w, c) ==
    IF c < 128 THEN << w[1], w[2] - (w[2] % 128) + XorTable[w[2] % 128][c] >>
    ELSE << w[1], BitXor(w[2], c, 16) >>

\* The two's complement of a word: (2^32 - w) mod 2^32.
WordNeg(w) ==
    IF w[2] = 0 THEN << (HALF - w[1]) % HALF, 0 >>
    ELSE << HALF - 1 - w[1], HALF - w[2] >>

\* The 64-bit product of a word's magnitude with the FNV prime 0x01000193,
\* as four 16-bit limbs <<p3, p2, p1, p0>>.
FNV_PRIME_HI == 256
FNV_PRIME_LO == 403
PrimeProduct(w) ==
    LET a  == w[2] * FNV_PRIME_LO
        b  == w[2] * FNV_PRIME_HI + w[1] * FNV_PRIME_LO
        c  == w[1] * FNV_PRIME_HI
        t1 == b + a \div HALF
        t2 == c + t1 \div HALF
    IN  << t2 \div HALF, t2 % HALF, t1 % HALF, a % HALF >>

\* The low 32 bits of the IEEE double nearest to the product p: a product of
\* 2^53 or more keeps only its 53 leading bits, rounded half to even.
RoundedLowWord(p) ==
    LET drop == IF p[1] < 32 THEN 1
                ELSE IF p[1] < 64 THEN 2
                ELSE IF p[1] < 128 THEN 4
                ELSE IF p[1] < 256 THEN 8
                ELSE 16
        rest == p[4] % drop
        kept == p[4] \div drop
        up   == (2 * rest > drop) \/ (2 * rest = drop /\ kept % 2 = 1)
        lo   == p[4] - rest + (IF up THEN drop ELSE 0)
    IN  IF lo = HALF THEN << (p[3] + 1) % HALF, 0 >> ELSE << p[3], lo >>

\* (hash * 0x01000193) >>> 0 where hash is the signed 32-bit result of ^=.
MulPrime(w) ==
    IF w[1] >= HALF \div 2
    THEN WordNeg(RoundedLowWord(PrimeProduct(WordNeg(w))))
    ELSE RoundedLowWord(PrimeProduct(w))

FNV_OFFSET == << 33052, 40389 >>

\* A 32-bit unsigned value, the range of >>> 0.
IsWord(w) == w[1] \in 0..(HALF - 1) /\ w[2] \in 0..(HALF - 1)

\* The loop of fnv1a32: each pass leaves a 32-bit unsigned hash.
RECURSIVE FnvLoop(_, _, _)
FnvLoop(hash, input, i) ==
    IF i > Len(input) THEN hash
    ELSE LET next == MulPrime(WordXor(hash, input[i]))
         IN  IF IsWord(next) THEN FnvLoop(next, input, i + 1) ELSE next

\* fnv1a32 of processTransactions.
fnv1a32(input) == FnvLoop(FNV_OFFSET, input, 1)

\* A digit of Number.toString(36): 0-9, a-z.
Base36Digit(d) == IF d < 10 THEN 48 + d ELSE 87 + d

\* hash.toString(36) for a word.
RECURSIVE WordToString36(_)
WordToString36(w) ==
    LET qh  == w[1] \div 36
        mid == (w[1] % 36) * HALF + w[2]
        ql  == mid \div 36
        r   == mid % 36
    IN  IF qh = 0 /\ ql = 0 THEN << Base36Digit(r) >>
        ELSE WordToString36(<< qh, ql >>) \o << Base36Digit(r) >>

(***************************************************************************)
(* The calendar of the JS Date object.                                      *)
(***************************************************************************)

\* Day number of the civil date y-m-d (m in 1..12), proleptic Gregorian.
DaysFromCivil(y, m, d) ==
    LET yy  == IF m <= 2 THEN y - 1 ELSE y
        era == yy \div 400
        yoe == yy - era * 400
        mp  == IF m > 2 THEN m - 3 ELSE m + 9
        doy == (153 * mp + 2) \div 5 + d - 1
        doe == yoe * 365 + yoe \div 4 - yoe \div 100 + doy
    IN  era * 146097 + doe - 719468

\* The civil date [y, m, d] of a day number.
CivilFromDays(z) ==
    LET civil(era, yoe, doy, mp, m) ==
            [y |-> yoe + era * 400 + (IF m <= 2 THEN 1 ELSE 0),
             m |-> m,
             d |-> doy - (153 * mp + 2) \div 5 + 1]
        ofMp(era, yoe, doy, mp) ==
            civil(era, yoe, doy, mp, IF mp < 10 THEN mp + 3 ELSE mp - 9)
        ofDoy(era, yoe, doy) == ofMp(era, yoe, doy, (5 * doy + 2) \div 153)
        ofYoe(era, doe, yoe) ==
            ofDoy(era, yoe, doe - (365 * yoe + yoe \div 4 - yoe \div 100))
        ofDoe(era, doe) ==
            ofYoe(era, doe,
                  (doe - doe \div 1460 + doe \div 36524 - doe \div 146096) \div 365)
        ofEra(zz, era) == ofDoe(era, zz - era * 146097)
        ofZz(zz) == ofEra(zz, zz \div 146097)
    IN  ofZz(z + 719468)

\* new Date(year, month, day): month is 0-based and may overflow into the
\* next year, day may be 0 (last day of the previous month) or overflow.
MkDate(year, month, day) ==
    DaysFromCivil(year + month \div 12, (month % 12) + 1, 1) + day - 1

getFullYear(date) == CivilFromDays(date).y
getMonth(date)    == CivilFromDays(date).m - 1
getDate(date)     == CivilFromDays(date).d
\* 0 = Sunday ... 6 = Saturday; 1970-01-01 was a Thursday.
getDay(date)      == (date + 4) % 7

(***************************************************************************)
(* businessDays.ts                                                          *)
(***************************************************************************)

BANK_HOLIDAYS ==
    { DaysFromCivil(2025, 1, 1),  DaysFromCivil(2025, 1, 20),
      DaysFromCivil(2025, 2, 17), DaysFromCivil(2025, 5, 26),
      DaysFromCivil(2025, 6, 19), DaysFromCivil(2025, 7, 4),
      DaysFromCivil(2025, 9, 1),  DaysFromCivil(2025, 10, 13),
      DaysFromCivil(2025, 11, 11), DaysFromCivil(2025, 11, 27),
      DaysFromCivil(2025, 12, 25),
      DaysFromCivil(2026, 1, 1),  DaysFromCivil(2026, 1, 19),
      DaysFromCivil(2026, 2, 16), DaysFromCivil(2026, 5, 25),
      DaysFromCivil(2026, 6, 19), DaysFromCivil(2026, 7, 3),
      DaysFromCivil(2026, 9, 7),  DaysFromCivil(2026, 10, 12),
      DaysFromCivil(2026, 11, 11), DaysFromCivil(2026, 11, 26),
      DaysFromCivil(2026, 12, 25),
      DaysFromCivil(2027, 1, 1),  DaysFromCivil(2027, 1, 18),
      DaysFromCivil(2027, 2, 15), DaysFromCivil(2027, 5, 31),
      DaysFromCivil(2027, 6, 18), DaysFromCivil(2027, 7, 5),
      DaysFromCivil(2027, 9, 6),  DaysFromCivil(2027, 10, 11),
      DaysFromCivil(2027, 11, 11), DaysFromCivil(2027, 11, 25),
      DaysFromCivil(2027, 12, 24) }

IsWeekend(date) == getDay(date) = 0 \/ getDay(date) = 6

\* Variant: the holiday table is not consulted.
isBusinessDay_WeekdaysOnly(date) == ~IsWeekend(date)

isBusinessDay(date) ==
    IF IsWeekend(date) THEN FALSE ELSE date \notin BANK_HOLIDAYS

\* The while loop of getNthBusinessDayAfter: result is advanced one day, then
\* counted when it is a business day.
RECURSIVE NthLoop(_, _, _)
NthLoop(result, businessDaysCounted, businessDaysAfter) ==
    IF businessDaysCounted < businessDaysAfter
    THEN LET next == result + 1
         IN  NthLoop(next,
                     IF isBusinessDay(next) THEN businessDaysCounted + 1
                                            ELSE businessDaysCounted,
                     businessDaysAfter)
    ELSE result

getNthBusinessDayAfter(fromDate, businessDaysAfter) ==
    NthLoop(fromDate, 0, businessDaysAfter)

getLastDayOfMonth(year, month) == MkDate(year, month + 1, 0)

\* Business days after each cutoff on which the contract pays.
PaymentBusinessDays == 4

getContractPayPeriods(year, month) ==
    LET firstCutoff == MkDate(year, month, 15)
        lastCutoff  == getLastDayOfMonth(year, month)
    IN  << [cutoffDate  |-> firstCutoff,
            paymentDate |-> getNthBusinessDayAfter(firstCutoff, PaymentBusinessDays),
            periodLabel |-> <<"Early", getMonth(MkDate(year, month, 1))>>],
           [cutoffDate  |-> lastCutoff,
            paymentDate |-> getNthBusinessDayAfter(lastCutoff, PaymentBusinessDays),
            periodLabel |-> <<"Late", getMonth(MkDate(year, month, 1))>>] >>

\* Variant: a payment dated today is still upcoming.
PaymentIsUpcoming_OrToday(paymentStart, todayStart) == paymentStart >= todayStart

\* The test that lets a period be returned: strictly after today.
PaymentIsUpcoming(paymentStart, todayStart) == paymentStart > todayStart

\* The payments of the months today.month + 0, 1, 2 in the order of the scan.
ScannedPeriods(todayStart) ==
    LET P(offset) ==
            LET targetMonth == getMonth(todayStart) + offset
                targetYear  == getFullYear(todayStart) + targetMonth \div 12
                normalizedMonth == ((targetMonth % 12) + 12) % 12
            IN  getContractPayPeriods(targetYear, normalizedMonth)
    IN  P(0) \o P(1) \o P(2)

RECURSIVE FirstUpcoming(_, _, _)
FirstUpcoming(periods, i, todayStart) ==
    IF i > Len(periods) THEN None
    ELSE IF PaymentIsUpcoming(periods[i].paymentDate, todayStart) THEN periods[i]
    ELSE FirstUpcoming(periods, i + 1, todayStart)

getNextScheduledPaymentDate(fromDate) ==
    LET todayStart == MkDate(getFullYear(fromDate), getMonth(fromDate), getDate(fromDate))
        found == FirstUpcoming(ScannedPeriods(todayStart), 1, todayStart)
    IN  IF found # None THEN found
        ELSE getContractPayPeriods(getFullYear(todayStart), getMonth(todayStart))[2]

\* isPaymentDate: a payment of the date's month or of the month before.
isPaymentDate(date) ==
    LET year  == getFullYear(date)
        month == getMonth(date)
        prevMonth == IF month = 0 THEN 11 ELSE month - 1
        prevYear  == IF month = 0 THEN year - 1 ELSE year
        periods     == getContractPayPeriods(year, month)
        prevPeriods == getContractPayPeriods(prevYear, prevMonth)
    IN  \/ \E i \in 1..Len(periods) : periods[i].paymentDate = date
        \/ \E i \in 1..Len(prevPeriods) : prevPeriods[i].paymentDate = date

(***************************************************************************)
(* financeUtils: numbers and dates read from text.  An amount is an integer *)
(* number of cents; the amounts read have at most two decimals.             *)
(***************************************************************************)

\* The number of decimal digits of str from position i on.
RECURSIVE DigitRun(_, _)
DigitRun(str, i) ==
    IF i <= Len(str) /\ IsDigitChar(str[i]) THEN 1 + DigitRun(str, i + 1) ELSE 0

\* parseFloat(str) || 0: the longest numeric prefix of the trimmed string,
\* or 0 when there is none (NaN).
parseFloatOrZero(str) ==
    LET signed(s) == s # <<>> /\ s[1] \in {43, 45}
        number(s, first, intLen, fracLen) ==
            LET dot      == first + intLen
                whole    == parseInt(SubSeq(s, first, dot - 1))
                tenths   == IF fracLen >= 1 THEN s[dot + 1] - 48 ELSE 0
                hundreds == IF fracLen >= 2 THEN s[dot + 2] - 48 ELSE 0
                cents    == 100 * whole + 10 * tenths + hundreds
            IN  IF intLen = 0 /\ fracLen = 0 THEN 0
                ELSE IF signed(s) /\ s[1] = 45 THEN -cents ELSE cents
        fracLen(s, dot) == IF dot <= Len(s) /\ s[dot] = 46 THEN DigitRun(s, dot + 1) ELSE 0
        digits(s, first, intLen) == number(s, first, intLen, fracLen(s, first + intLen))
        from(s, first) == digits(s, first, DigitRun(s, first))
        trimmed(s) == from(s, IF signed(s) THEN 2 ELSE 1)
    IN  trimmed(trim(str))

\* String(amount): the shortest decimal that reads back as the amount.
NumberToString(amount) ==
    LET a     == IF amount < 0 THEN -amount ELSE amount
        frac  == a % 100
        digits == IF frac = 0 THEN <<>>
                  ELSE IF frac % 10 = 0 THEN << 46, 48 + (frac \div 10) >>
                  ELSE << 46, 48 + (frac \div 10), 48 + (frac % 10) >>
    IN  (IF amount < 0 THEN << 45 >> ELSE <<>>) \o NatToStr(a \div 100) \o digits

\* parseDate: M/D/YY or MM/DD/YYYY to YYYY-MM-DD; a two-digit year is placed
\* in the century of the clock (new Date().getFullYear()).
parseDate(dateStr, now) ==
    LET parts == split(dateStr, 47)
    IN  IF Len(parts) # 3 THEN dateStr
        ELSE LET month == padStart2(parts[1])
                 day   == padStart2(parts[2])
                 currentCentury == (getFullYear(now) \div 100) * 100
                 year  == IF Len(parts[3]) = 2
                          THEN NatToStr(currentCentury + parseInt(parts[3]))
                          ELSE parts[3]
             IN  year \o << 45 >> \o month \o << 45 >> \o day

\* new Date('YYYY-MM-DD'): the day whose UTC midnight the string names.
DateFromISO(dateStr) ==
    DaysFromCivil(parseInt(SubSeq(dateStr, 1, 4)),
                  parseInt(SubSeq(dateStr, 6, 7)),
                  parseInt(SubSeq(dateStr, 9, 10)))

\* The local calendar day of new Date('YYYY-MM-DD'): UTC midnight is still
\* the evening before in a zone west of Greenwich.
LocalDayOfISO(dateStr, west) ==
    IF west THEN DateFromISO(dateStr) - 1 ELSE DateFromISO(dateStr)

(***************************************************************************)
(* financeUtils: parseCSV.  A RawTransaction is a record; a field that is   *)
(* undefined in the source is the empty string here, as every reader of      *)
(* such a field takes (field || '').                                         *)
(***************************************************************************)

\* parseCSVLine: the fields of a line, split at the commas outside quotes,
\* quotes dropped, each field trimmed.
parseCSVLine(line) ==
    LET quotes == {j \in 1..Len(line) : line[j] = QUOTE}
        inQuotes(i) == Cardinality({j \in quotes : j < i}) % 2 = 1
        commas == {i \in 1..Len(line) : line[i] = 44 /\ ~inQuotes(i)}
        pieces == SplitAt(line, commas)
    IN  [k \in 1..Len(pieces) |-> trim(SelectSeq(pieces[k], LAMBDA c : c # QUOTE))]

\* str.replace(/^"|"$/g, ''): one leading and one trailing quote removed.
StripQuotes(str) ==
    LET a == IF str # <<>> /\ str[1] = QUOTE THEN Tail(str) ELSE str
    IN  IF a # <<>> /\ a[Len(a)] = QUOTE THEN SubSeq(a, 1, Len(a) - 1) ELSE a

\* str.replace(/X/g, ''): every occurrence of the character removed.
RemoveChar(str, c) == SelectSeq(str, LAMBDA x : x # c)

\* The field at a 0-based index, or the empty string past the end.
FieldAt(fields, k) == IF k + 1 <= Len(fields) THEN fields[k + 1] ELSE <<>>

IsQuickBooksHeader(lineLower) ==
    includes(lineLower, Str(<<"t", "r", "a", "n", "s", "a", "c", "t", "i", "o", "n", " ", "t", "y", "p", "e">>)) /\ includes(lineLower, Str(<<"a", "c", "c", "o", "u", "n", "t", " ", "n", "a", "m", "e">>))

IsBankHeader(lineLower) ==
    startsWith(lineLower, Str(<<"d", "e", "t", "a", "i", "l", "s", ",">>)) /\ includes(lineLower, Str(<<"p", "o", "s", "t", "i", "n", "g", " ", "d", "a", "t", "e">>))

IsChaseCardHeader(lineLower) ==
    /\ includes(lineLower, Str(<<"t", "r", "a", "n", "s", "a", "c", "t", "i", "o", "n", " ", "d", "a", "t", "e">>))
    /\ includes(lineLower, Str(<<"p", "o", "s", "t", " ", "d", "a", "t", "e">>))
    /\ includes(lineLower, Str(<<"a", "m", "o", "u", "n", "t">>))

\* detectCSVFormat: the format named by the first ten lines.
RECURSIVE DetectLoop(_, _)
DetectLoop(lines, i) ==
    IF i > Min(10, Len(lines)) THEN "bank"
    ELSE IF IsQuickBooksHeader(toLowerCase(lines[i])) THEN "quickbooks"
    ELSE IF IsChaseCardHeader(toLowerCase(lines[i])) THEN "chasecard"
    ELSE DetectLoop(lines, i + 1)

detectCSVFormat(lines) == DetectLoop(lines, 1)

\* parseQuickBooksAmount: quotes and commas removed, then parseFloat || 0.
parseQuickBooksAmount(amountStr) ==
    parseFloatOrZero(trim(RemoveChar(RemoveChar(amountStr, QUOTE), 44)))

\* Variant: a line of fewer than six fields ends the section.
RECURSIVE BankRows_UntilShortRow(_, _)
BankRows_UntilShortRow(lines, i) ==
    IF i > Len(lines) THEN <<>>
    ELSE LET row(fields) ==
                 IF Len(fields) < 6 THEN <<>>
                 ELSE << [details     |-> fields[1],
                          postingDate |-> fields[2],
                          description |-> StripQuotes(fields[3]),
                          amount      |-> parseFloatOrZero(fields[4]),
                          type        |-> fields[5],
                          balance     |-> parseFloatOrZero(fields[6]),
                          checkOrSlip |-> FieldAt(fields, 6),
                          qbCategory  |-> <<>>] >>
                      \o BankRows_UntilShortRow(lines, i + 1)
         IN  row(parseCSVLine(lines[i]))

\* parseBankCSV: one record per data line of at least six fields.
RECURSIVE BankRows(_, _)
BankRows(lines, i) ==
    IF i > Len(lines) THEN <<>>
    ELSE LET row(fields) ==
                 IF trim(lines[i]) = <<>> \/ Len(fields) < 6 THEN <<>>
                 ELSE << [details     |-> fields[1],
                          postingDate |-> fields[2],
                          description |-> StripQuotes(fields[3]),
                          amount      |-> parseFloatOrZero(fields[4]),
                          type        |-> fields[5],
                          balance     |-> parseFloatOrZero(fields[6]),
                          checkOrSlip |-> FieldAt(fields, 6),
                          qbCategory  |-> <<>>] >>
         IN  row(parseCSVLine(lines[i])) \o BankRows(lines, i + 1)

\* Variant: the first line is read as a row as well.
parseBankCSV_FromFirstLine(lines) == BankRows(lines, 1)

\* The first line is the header and is skipped.
parseBankCSV(lines) == BankRows(lines, 2)

\* The 0-based index of the QuickBooks header row among the first ten lines
\* ("Date,Transaction type,..."), or -1.
RECURSIVE QuickBooksHeaderIndex(_, _)
QuickBooksHeaderIndex(lines, i) ==
    IF i >= Min(10, Len(lines)) THEN -1
    ELSE IF startsWith(toLowerCase(lines[i + 1]), Str(<<"d", "a", "t", "e", ",">>))
            /\ includes(toLowerCase(lines[i + 1]), Str(<<"t", "r", "a", "n", "s", "a", "c", "t", "i", "o", "n", " ", "t", "y", "p", "e">>)) THEN i
    ELSE QuickBooksHeaderIndex(lines, i + 1)

\* The rows of parseQuickBooksCSV after the header: rows of fewer than nine
\* fields, without a date or with a zero amount are skipped.
RECURSIVE QuickBooksRows(_, _)
QuickBooksRows(lines, i) ==
    IF i > Len(lines) THEN <<>>
    ELSE LET fullDescription(transactionType, name, description) ==
                 IF description # <<>> THEN description
                 ELSE IF name # <<>> THEN name
                 ELSE transactionType
             type(transactionType, amount) ==
                 IF amount > 0
                 THEN IF includes(toLowerCase(transactionType), Str(<<"d", "e", "p", "o", "s", "i", "t">>))
                      THEN Str(<<"A", "C", "H", "_", "C", "R", "E", "D", "I", "T">>) ELSE Str(<<"C", "R", "E", "D", "I", "T">>)
                 ELSE Str(<<"D", "E", "B", "I", "T">>)
             record(fields, amount) ==
                 IF fields[1] = <<>> \/ amount = 0 THEN <<>>
                 ELSE << [details     |-> fields[2],
                          postingDate |-> fields[1],
                          description |-> StripQuotes(fullDescription(fields[2], fields[5], fields[6])),
                          amount      |-> amount,
                          type        |-> type(fields[2], amount),
                          balance     |-> 0,
                          checkOrSlip |-> <<>>,
                          qbCategory  |-> StripQuotes(fields[8])] >>
             row(fields) ==
                 IF trim(lines[i]) = <<>> \/ Len(fields) < 9 THEN <<>>
                 ELSE record(fields, parseQuickBooksAmount(fields[9]))
         IN  row(parseCSVLine(lines[i])) \o QuickBooksRows(lines, i + 1)

parseQuickBooksCSV(lines) ==
    LET headerIndex == QuickBooksHeaderIndex(lines, 0)
    IN  IF headerIndex = -1 THEN <<>> ELSE QuickBooksRows(lines, headerIndex + 2)

\* parseChaseCardCSV: rows without a post date or a description are skipped;
\* the sign of the amount decides the type.
RECURSIVE ChaseCardRows(_, _)
ChaseCardRows(lines, i) ==
    IF i > Len(lines) THEN <<>>
    ELSE LET txType(type, amount) ==
                 IF amount > 0 THEN Str(<<"C", "R", "E", "D", "I", "T">>)
                 ELSE IF amount < 0 THEN Str(<<"D", "E", "B", "I", "T">>)
                 ELSE toUpperCase(type)
             record(fields, description, amount, memo) ==
                 IF fields[2] = <<>> \/ description = <<>> THEN <<>>
                 ELSE << [details     |-> fields[5],
                          postingDate |-> fields[2],
                          description |-> IF memo # <<>>
                                          THEN description \o Str(<<" ", "-", " ">>) \o memo
                                          ELSE description,
                          amount      |-> amount,
                          type        |-> txType(fields[5], amount),
                          balance     |-> 0,
                          checkOrSlip |-> <<>>,
                          qbCategory  |-> fields[4]] >>
             row(fields) ==
                 IF trim(lines[i]) = <<>> \/ Len(fields) < 6 THEN <<>>
                 ELSE record(fields, StripQuotes(fields[3]),
                             parseFloatOrZero(RemoveChar(fields[6], 44)), FieldAt(fields, 6))
         IN  row(parseCSVLine(lines[i])) \o ChaseCardRows(lines, i + 1)

parseChaseCardCSV(lines) == ChaseCardRows(lines, 2)

parseFormatSection(lines, format) ==
    IF format = "quickbooks" THEN parseQuickBooksCSV(lines)
    ELSE IF format = "chasecard" THEN parseChaseCardCSV(lines)
    ELSE parseBankCSV(lines)

\* The loop of parseCSV over the lines: a header line closes the section
\* before it and opens a new one; currentFormat is "null" before any header.
RECURSIVE SectionLoop(_, _, _, _, _)
SectionLoop(lines, i, allTransactions, currentSection, currentFormat) ==
    IF i > Len(lines)
    THEN IF currentSection = <<>> THEN allTransactions
         ELSE allTransactions \o
              parseFormatSection(currentSection,
                                 IF currentFormat = "null"
                                 THEN detectCSVFormat(currentSection)
                                 ELSE currentFormat)
    ELSE LET lineLower == toLowerCase(lines[i])
             qb    == IsQuickBooksHeader(lineLower)
             bank  == IsBankHeader(lineLower)
             chase == IsChaseCardHeader(lineLower)
         IN  IF qb \/ bank \/ chase
             THEN SectionLoop(lines, i + 1,
                      IF currentSection # <<>> /\ currentFormat # "null"
                      THEN allTransactions \o parseFormatSection(currentSection, currentFormat)
                      ELSE allTransactions,
                      << lines[i] >>,
                      IF qb THEN "quickbooks" ELSE IF chase THEN "chasecard" ELSE "bank")
             ELSE SectionLoop(lines, i + 1, allTransactions,
                              Append(currentSection, lines[i]), currentFormat)

\* The records of a file read without its last line.
parseCSV_LastLineDropped(content) ==
    LET all   == split(trim(content), NEWLINE)
        lines == SubSeq(all, 1, Len(all) - 1)
    IN  IF Len(lines) < 2 THEN <<>>
        ELSE SectionLoop(lines, 1, <<>>, <<>>, "null")

\* parseCSV: the raw records of a file's content, in file order.
parseCSV(content) ==
    LET lines == split(trim(content), NEWLINE)
    IN  IF Len(lines) < 2 THEN <<>>
        ELSE SectionLoop(lines, 1, <<>>, <<>>, "null")

\* detectCSVFormat of src/utils/financeUtils.ts: QuickBooks or bank.
RECURSIVE DetectLoop_V1(_, _)
DetectLoop_V1(lines, i) ==
    IF i > Min(10, Len(lines)) THEN "bank"
    ELSE IF IsQuickBooksHeader(toLowerCase(lines[i])) THEN "quickbooks"
    ELSE DetectLoop_V1(lines, i + 1)

detectCSVFormat_V1(lines) == DetectLoop_V1(lines, 1)

\* The choice of parser in parseCSV of src/utils/financeUtils.ts.  Its two
\* parsers are those above, except that their records carry no qbCategory,
\* a field that version never reads.
ParseSection_V1(lines, format) ==
    IF format = "quickbooks" THEN parseQuickBooksCSV(lines) ELSE parseBankCSV(lines)

\* The loop of parseCSV of src/utils/financeUtils.ts, which knows the
\* QuickBooks and the bank header.
RECURSIVE SectionLoop_V1(_, _, _, _, _)
SectionLoop_V1(lines, i, allTransactions, currentSection, currentFormat) ==
    IF i > Len(lines)
    THEN IF currentSection = <<>> THEN allTransactions
         ELSE allTransactions \o
              ParseSection_V1(currentSection,
                              IF currentFormat = "null"
                              THEN detectCSVFormat_V1(currentSection)
                              ELSE currentFormat)
    ELSE LET lineLower == toLowerCase(lines[i])
             qb    == IsQuickBooksHeader(lineLower)
             bank  == IsBankHeader(lineLower)
         IN  IF qb \/ bank
             THEN SectionLoop_V1(lines, i + 1,
                      IF currentSection # <<>> /\ currentFormat # "null"
                      THEN allTransactions \o ParseSection_V1(currentSection, currentFormat)
                      ELSE allTransactions,
                      << lines[i] >>,
                      IF qb THEN "quickbooks" ELSE "bank")
             ELSE SectionLoop_V1(lines, i + 1, allTransactions,
                                 Append(currentSection, lines[i]), currentFormat)

\* parseCSV of src/utils/financeUtils.ts.
parseCSV_V1(content) ==
    LET lines == split(trim(content), NEWLINE)
    IN  IF Len(lines) < 2 THEN <<>>
        ELSE SectionLoop_V1(lines, 1, <<>>, <<>>, "null")

(***************************************************************************)
(* financeUtils: processTransactions.                                       *)
(***************************************************************************)

\* The rank of a character in the collation used by String.localeCompare
\* (white space, then punctuation, then digits, then letters); the strings
\* compared are lower-cased descriptions and types.
CollationRank(c) ==
    IF IsSpaceChar(c) THEN 0
    ELSE IF c = 95 THEN 1
    ELSE IF c = 45 THEN 2
    ELSE IF c = 44 THEN 3
    ELSE IF c = 46 THEN 4
    ELSE IF c = 42 THEN 5
    ELSE IF c = 47 THEN 6
    ELSE IF c = 35 THEN 7
    ELSE IF IsDigitChar(c) THEN 10 + (c - 48)
    ELSE IF IsLowerChar(c) THEN 20 + (c - 97)
    ELSE IF IsUpperChar(c) THEN 20 + (c - 65)
    ELSE 8

\* a.localeCompare(b): negative, zero or positive.
localeCompare(a, b) ==
    LET diffs == {i \in 1..Min(Len(a), Len(b)) : CollationRank(a[i]) # CollationRank(b[i])}
    IN  IF diffs = {}
        THEN (IF Len(a) < Len(b) THEN -1 ELSE IF Len(a) > Len(b) THEN 1 ELSE 0)
        ELSE LET i == CHOOSE d \in diffs : \A e \in diffs : d <= e
             IN  IF CollationRank(a[i]) < CollationRank(b[i]) THEN -1 ELSE 1

\* new Date(parseDate(tx.postingDate)).getTime(), in days.
PostingTime(tx, now) == DateFromISO(parseDate(tx.postingDate, now))

\* Variant: rows of one date keep the order of the file.
CompareRaw_DateOnly(a, b, now) == PostingTime(b, now) - PostingTime(a, now)

\* The comparator of the sort: newest first, then description, then the
\* larger amount, then type.
CompareRaw(a, b, now) ==
    LET compare(dateA, dateB, descCmp, typeCmp) ==
            IF dateB # dateA THEN dateB - dateA
            ELSE IF descCmp # 0 THEN descCmp
            ELSE IF a.amount # b.amount THEN b.amount - a.amount
            ELSE IF typeCmp # 0 THEN typeCmp
            ELSE 0
    IN  compare(PostingTime(a, now), PostingTime(b, now),
                localeCompare(toLowerCase(a.description), toLowerCase(b.description)),
                localeCompare(toLowerCase(a.type), toLowerCase(b.type)))

\* The comparator of the sort in src/utils/financeUtils.ts: newest first.
CompareRaw_V1(a, b, now) == PostingTime(b, now) - PostingTime(a, now)

\* Array.prototype.sort, which is stable: an element moves behind every
\* element that compares before it and every equal element that preceded it.
StableSort(seq, Cmp(_, _)) ==
    LET order  == [j \in 1..Len(seq) |-> [i \in 1..Len(seq) |-> Cmp(seq[j], seq[i])]]
        before(j, i) == order[j][i] < 0 \/ (order[j][i] = 0 /\ j < i)
        place  == [i \in 1..Len(seq) |-> 1 + Cardinality({j \in 1..Len(seq) : before(j, i)})]
    IN  [p \in 1..Len(seq) |-> seq[CHOOSE i \in 1..Len(seq) : place[i] = p]]

\* getPayPeriods: the two cutoffs of a month with their calculation and
\* payment days.
getPayPeriods(year, month) ==
    LET firstCutoff == MkDate(year, month, 15)
        lastDay     == getLastDayOfMonth(year, month)
    IN  << [cutoffDate      |-> firstCutoff,
            calculationDate |-> getNthBusinessDayAfter(firstCutoff, 1),
            paymentDate     |-> getNthBusinessDayAfter(firstCutoff, PaymentBusinessDays)],
           [cutoffDate      |-> lastDay,
            calculationDate |-> getNthBusinessDayAfter(lastDay, 1),
            paymentDate     |-> getNthBusinessDayAfter(lastDay, PaymentBusinessDays)] >>

\* determinePayPeriodImpact: whether the date falls between a payment of its
\* month and the next cutoff.  The date is read as UTC and compared with
\* local days, so west of Greenwich it counts as the day before.
determinePayPeriodImpact(dateStr, west) ==
    LET nextCutoff(year, month, periods, i) ==
            IF i < Len(periods) THEN periods[i + 1].cutoffDate
            ELSE MkDate(year, month + 1, 15)
        inPeriods(date, year, month, periods) ==
            \E i \in 1..Len(periods) :
                date >= periods[i].paymentDate /\ date < nextCutoff(year, month, periods, i)
        inMonth(date, year, month) ==
            inPeriods(date, year, month, getPayPeriods(year, month))
        impact(date) == inMonth(date, getFullYear(date), getMonth(date))
    IN  impact(LocalDayOfISO(dateStr, west))

\* The white-space class \s in a pattern.
SpaceClass == 0

\* Whether the literal part of a pattern matches str at position i; the
\* patterns carry the flag i and are tested against lower-cased text.
MatchesAt(str, part, i) ==
    /\ i + Len(part) - 1 <= Len(str)
    /\ \A k \in 1..Len(part) :
          IF part[k] = SpaceClass THEN IsSpaceChar(str[i + k - 1])
          ELSE str[i + k - 1] = part[k]

\* RegExp.test for a pattern 'part1.*part2...': the parts occur in order,
\* with no line terminator between them.
RECURSIVE TestFrom(_, _, _, _)
TestFrom(str, parts, k, from) ==
    \E i \in from..(Len(str) - Len(parts[k]) + 1) :
        /\ MatchesAt(str, parts[k], i)
        /\ k > 1 => \A g \in from..(i - 1) : str[g] \notin {10, 13}
        /\ k = Len(parts) \/ TestFrom(str, parts, k + 1, i + Len(parts[k]))

RegExpTest(parts, str) == TestFrom(str, parts, 1, 1)

\* categoryPatterns, in the order of Object.entries.
categoryPatterns ==
    <<
    [category |-> "Gas",
     patterns |-> <<<<Str(<<"v", "a", "l", "e", "r", "o">>)>>,
                   <<Str(<<"s", "h", "e", "l", "l">>)>>,
                   <<Str(<<"e", "x", "x", "o", "n">>)>>,
                   <<Str(<<"c", "h", "e", "v", "r", "o", "n">>)>>,
                   <<Str(<<"f", "u", "e", "l">>)>>,
                   <<Str(<<"g", "a", "s">>)>>,
                   <<Str(<<"p", "i", "l", "o", "t">>)>>,
                   <<Str(<<"t", "a">>) \o <<SpaceClass>>>>,
                   <<Str(<<"l", "o", "v", "e", "s">>)>>,
                   <<Str(<<"p", "e", "t", "r", "o">>)>>,
                   <<Str(<<"f", "u", "e", "l", " ", "m", "a", "x", "x">>)>>>>],
    [category |-> "Travel",
     patterns |-> <<<<Str(<<"h", "o", "t", "e", "l">>)>>,
                   <<Str(<<"a", "i", "r", "l", "i", "n", "e">>)>>,
                   <<Str(<<"s", "o", "u", "t", "h", "w", "e", "s", "t">>)>>,
                   <<Str(<<"d", "e", "l", "t", "a">>)>>,
                   <<Str(<<"u", "n", "i", "t", "e", "d">>)>>,
                   <<Str(<<"m", "a", "r", "r", "i", "o", "t", "t">>)>>,
                   <<Str(<<"h", "i", "l", "t", "o", "n">>)>>,
                   <<Str(<<"u", "b", "e", "r">>)>>,
                   <<Str(<<"l", "y", "f", "t">>)>>,
                   <<Str(<<"t", "r", "a", "v", "e", "l">>)>>>>],
    [category |-> "Legal & Accounting",
     patterns |-> <<<<Str(<<"l", "e", "g", "a", "l", "z", "o", "o", "m">>)>>,
                   <<Str(<<"a", "t", "t", "o", "r", "n", "e", "y">>)>>,
                   <<Str(<<"l", "a", "w", "y", "e", "r">>)>>,
                   <<Str(<<"a", "c", "c", "o", "u", "n", "t", "a", "n", "t">>)>>,
                   <<Str(<<"c", "p", "a">>)>>,
                   <<Str(<<"l", "e", "g", "a", "l">>)>>>>],
    [category |-> "Office Supplies",
     patterns |-> <<<<Str(<<"o", "f", "f", "i", "c", "e", " ", "d", "e", "p", "o", "t">>)>>,
                   <<Str(<<"s", "t", "a", "p", "l", "e", "s">>)>>,
                   <<Str(<<"c", "u", "s", "t", "o", "m", "i", "n", "k">>)>>,
                   <<Str(<<"o", "f", "f", "i", "c", "e", " ", "s", "u", "p", "p", "l", "i", "e", "s">>)>>>>],
    [category |-> "Software",
     patterns |-> <<<<Str(<<"g", "i", "t", "h", "u", "b">>)>>,
                   <<Str(<<"a", "d", "o", "b", "e">>)>>,
                   <<Str(<<"m", "i", "c", "r", "o", "s", "o", "f", "t">>)>>,
                   <<Str(<<"z", "o", "o", "m">>)>>,
                   <<Str(<<"s", "l", "a", "c", "k">>)>>,
                   <<Str(<<"a", "w", "s">>)>>,
                   <<Str(<<"h", "e", "r", "o", "k", "u">>)>>,
                   <<Str(<<"f", "r", "o", "n", "t", ".", "c", "o", "m">>)>>,
                   <<Str(<<"c", "a", "r", "g", "a", "d", "o">>)>>,
                   <<Str(<<"d", "u", "n">>), Str(<<"b", "r", "a", "d", "s", "t", "r", "e", "e", "t">>)>>,
                   <<Str(<<"s", "o", "f", "t", "w", "a", "r", "e">>)>>>>],
    [category |-> "Repairs & Maintenance",
     patterns |-> <<<<Str(<<"r", "e", "p", "a", "i", "r">>)>>,
                   <<Str(<<"m", "a", "i", "n", "t", "e", "n", "a", "n", "c", "e">>)>>,
                   <<Str(<<"m", "a", "i", "d", " ", "s", "e", "n", "s", "e">>)>>,
                   <<Str(<<"m", "e", "c", "h", "a", "n", "i", "c">>)>>,
                   <<Str(<<"s", "e", "r", "v", "i", "c", "e">>)>>>>],
    [category |-> "Postage",
     patterns |-> <<<<Str(<<"u", "s", "p", "s">>)>>,
                   <<Str(<<"u", "p", "s">>)>>,
                   <<Str(<<"f", "e", "d", "e", "x">>)>>,
                   <<Str(<<"p", "o", "s", "t", "a", "l">>)>>,
                   <<Str(<<"p", "o", "s", "t", "a", "g", "e">>)>>,
                   <<Str(<<"s", "h", "i", "p", "p", "i", "n", "g">>)>>>>],
    [category |-> "Taxes & Registration",
     patterns |-> <<<<Str(<<"r", "e", "v", "e", "n", "u", "e">>), Str(<<"d", "e", "p", "a", "r", "t", "m", "e", "n", "t">>)>>,
                   <<Str(<<"i", "r", "s">>)>>,
                   <<Str(<<"t", "a", "x">>)>>,
                   <<Str(<<"s", "t", "a", "t", "e">>), Str(<<"t", "a", "x">>)>>,
                   <<Str(<<"r", "e", "g", "i", "s", "t", "r", "a", "t", "i", "o", "n">>)>>,
                   <<Str(<<"b", "o", "n", "f", "i", "r", "e">>)>>>>],
    [category |-> "Insurance",
     patterns |-> <<<<Str(<<"i", "n", "s", "u", "r", "a", "n", "c", "e">>)>>,
                   <<Str(<<"g", "e", "i", "c", "o">>)>>,
                   <<Str(<<"a", "l", "l", "s", "t", "a", "t", "e">>)>>,
                   <<Str(<<"p", "r", "o", "g", "r", "e", "s", "s", "i", "v", "e">>)>>,
                   <<Str(<<"s", "t", "a", "t", "e", " ", "f", "a", "r", "m">>)>>,
                   <<Str(<<"h", "e", "n", "d", "e", "r", "s", "h">>)>>>>],
    [category |-> "Subscriptions",
     patterns |-> <<<<Str(<<"s", "p", "o", "t", "i", "f", "y">>)>>,
                   <<Str(<<"n", "e", "t", "f", "l", "i", "x">>)>>,
                   <<Str(<<"h", "u", "l", "u">>)>>,
                   <<Str(<<"a", "p", "p", "l", "e">>)>>,
                   <<Str(<<"g", "o", "o", "g", "l", "e">>), Str(<<"s", "t", "o", "r", "a", "g", "e">>)>>,
                   <<Str(<<"d", "i", "a", "l", "p", "a", "d">>)>>,
                   <<Str(<<"c", "l", "o", "u", "d", "f", "l", "a", "r", "e">>)>>,
                   <<Str(<<"s", "q", "u", "a", "r", "e", "s", "p", "a", "c", "e">>)>>,
                   <<Str(<<"s", "q", "s", "p">>)>>,
                   <<Str(<<"l", "o", "v", "a", "b", "l", "e">>)>>,
                   <<Str(<<"a", "u", "d", "i", "b", "l", "e">>)>>>>],
    [category |-> "Sales",
     patterns |-> <<<<Str(<<"i", "n", "v", "o", "i", "c", "e">>)>>,
                   <<Str(<<"p", "a", "y", "m", "e", "n", "t">>), Str(<<"r", "e", "c", "e", "i", "v", "e", "d">>)>>,
                   <<Str(<<"m", "a", "r", "g", "i", "n", " ", "f", "r", "e", "i", "g", "h", "t">>)>>>>],
    [category |-> "Owner's Contribution",
     patterns |-> <<<<Str(<<"o", "w", "n", "e", "r">>), Str(<<"c", "o", "n", "t", "r", "i", "b", "u", "t", "i", "o", "n">>)>>,
                   <<Str(<<"c", "a", "p", "i", "t", "a", "l">>), Str(<<"c", "o", "n", "t", "r", "i", "b", "u", "t", "i", "o", "n">>)>>>>],
    [category |-> "Owner's Distribution",
     patterns |-> <<<<Str(<<"o", "w", "n", "e", "r">>), Str(<<"d", "i", "s", "t", "r", "i", "b", "u", "t", "i", "o", "n">>)>>,
                   <<Str(<<"d", "r", "a", "w">>)>>,
                   <<Str(<<"p", "e", "r", "s", "o", "n", "a", "l">>)>>>>],
    [category |-> "Transfers",
     patterns |-> <<<<Str(<<"t", "r", "a", "n", "s", "f", "e", "r">>)>>,
                   <<Str(<<"x", "f", "e", "r">>)>>,
                   <<Str(<<"a", "c", "c", "t", "_", "x", "f", "e", "r">>)>>,
                   <<Str(<<"z", "e", "l", "l", "e">>)>>,
                   <<Str(<<"v", "e", "n", "m", "o">>)>>,
                   <<Str(<<"p", "a", "y", "p", "a", "l">>)>>,
                   <<Str(<<"p", "a", "y", "m", "e", "n", "t", " ", "t", "h", "a", "n", "k", " ", "y", "o", "u">>)>>,
                   <<Str(<<"c", "r", "e", "d", "i", "t", " ", "c", "a", "r", "d", " ", "p", "a", "y", "m", "e", "n", "t">>)>>>>],
    [category |-> "Fees",
     patterns |-> <<<<Str(<<"f", "e", "e">>)>>,
                   <<Str(<<"c", "h", "a", "r", "g", "e">>)>>,
                   <<Str(<<"o", "v", "e", "r", "d", "r", "a", "f", "t">>)>>,
                   <<Str(<<"n", "s", "f">>)>>,
                   <<Str(<<"s", "e", "r", "v", "i", "c", "e", " ", "c", "h", "a", "r", "g", "e">>)>>>>],
    [category |-> "Miscellaneous",
     patterns |-> <<>>]
    >>

\* The mapping of a QuickBooks account name to a category, in the order of
\* the tests.
QuickBooksCategories ==
    <<
    [category |-> "Gas",
     keywords |-> <<Str(<<"g", "a", "s">>),
                   Str(<<"f", "u", "e", "l">>),
                   Str(<<"d", "i", "e", "s", "e", "l">>)>>],
    [category |-> "Travel",
     keywords |-> <<Str(<<"t", "r", "a", "v", "e", "l">>),
                   Str(<<"l", "o", "d", "g", "i", "n", "g">>),
                   Str(<<"h", "o", "t", "e", "l">>),
                   Str(<<"m", "e", "a", "l", "s">>)>>],
    [category |-> "Legal & Accounting",
     keywords |-> <<Str(<<"l", "e", "g", "a", "l">>),
                   Str(<<"a", "c", "c", "o", "u", "n", "t", "i", "n", "g">>),
                   Str(<<"p", "r", "o", "f", "e", "s", "s", "i", "o", "n", "a", "l">>),
                   Str(<<"a", "t", "t", "o", "r", "n", "e", "y">>)>>],
    [category |-> "Office Supplies",
     keywords |-> <<Str(<<"o", "f", "f", "i", "c", "e">>),
                   Str(<<"s", "u", "p", "p", "l", "i", "e", "s">>),
                   Str(<<"e", "q", "u", "i", "p", "m", "e", "n", "t">>)>>],
    [category |-> "Software",
     keywords |-> <<Str(<<"s", "o", "f", "t", "w", "a", "r", "e">>),
                   Str(<<"c", "o", "m", "p", "u", "t", "e", "r">>),
                   Str(<<"t", "e", "c", "h", "n", "o", "l", "o", "g", "y">>),
                   Str(<<"i", "n", "t", "e", "r", "n", "e", "t">>)>>],
    [category |-> "Repairs & Maintenance",
     keywords |-> <<Str(<<"r", "e", "p", "a", "i", "r">>),
                   Str(<<"m", "a", "i", "n", "t", "e", "n", "a", "n", "c", "e">>),
                   Str(<<"t", "r", "u", "c", "k">>),
                   Str(<<"v", "e", "h", "i", "c", "l", "e">>)>>],
    [category |-> "Postage",
     keywords |-> <<Str(<<"p", "o", "s", "t", "a", "g", "e">>),
                   Str(<<"s", "h", "i", "p", "p", "i", "n", "g">>),
                   Str(<<"f", "r", "e", "i", "g", "h", "t">>),
                   Str(<<"d", "e", "l", "i", "v", "e", "r", "y">>)>>],
    [category |-> "Taxes & Registration",
     keywords |-> <<Str(<<"t", "a", "x">>),
                   Str(<<"l", "i", "c", "e", "n", "s", "e">>),
                   Str(<<"r", "e", "g", "i", "s", "t", "r", "a", "t", "i", "o", "n">>),
                   Str(<<"p", "e", "r", "m", "i", "t">>)>>],
    [category |-> "Insurance",
     keywords |-> <<Str(<<"i", "n", "s", "u", "r", "a", "n", "c", "e">>),
                   Str(<<"l", "i", "a", "b", "i", "l", "i", "t", "y">>),
                   Str(<<"c", "a", "r", "g", "o">>)>>],
    [category |-> "Subscriptions",
     keywords |-> <<Str(<<"s", "u", "b", "s", "c", "r", "i", "p", "t", "i", "o", "n">>),
                   Str(<<"d", "u", "e", "s">>),
                   Str(<<"m", "e", "m", "b", "e", "r", "s", "h", "i", "p">>)>>],
    [category |-> "Sales",
     keywords |-> <<Str(<<"s", "a", "l", "e", "s">>),
                   Str(<<"i", "n", "c", "o", "m", "e">>),
                   Str(<<"r", "e", "v", "e", "n", "u", "e">>),
                   Str(<<"a", "c", "c", "o", "u", "n", "t", "s", " ", "r", "e", "c", "e", "i", "v", "a", "b", "l", "e">>)>>],
    [category |-> "Owner's Contribution",
     keywords |-> <<Str(<<"o", "w", "n", "e", "r", "'", "s", " ", "c", "o", "n", "t", "r", "i", "b", "u", "t", "i", "o", "n">>),
                   Str(<<"c", "a", "p", "i", "t", "a", "l", " ", "c", "o", "n", "t", "r", "i", "b", "u", "t", "i", "o", "n">>),
                   Str(<<"o", "w", "n", "e", "r", " ", "c", "o", "n", "t", "r", "i", "b", "u", "t", "i", "o", "n">>)>>],
    [category |-> "Owner's Distribution",
     keywords |-> <<Str(<<"o", "w", "n", "e", "r", "'", "s", " ", "d", "i", "s", "t", "r", "i", "b", "u", "t", "i", "o", "n">>),
                   Str(<<"d", "r", "a", "w">>),
                   Str(<<"d", "i", "s", "t", "r", "i", "b", "u", "t", "i", "o", "n">>),
                   Str(<<"s", "h", "a", "r", "e", "h", "o", "l", "d", "e", "r">>)>>],
    [category |-> "Transfers",
     keywords |-> <<Str(<<"t", "r", "a", "n", "s", "f", "e", "r">>),
                   Str(<<"d", "u", "e", " ", "f", "r", "o", "m">>),
                   Str(<<"d", "u", "e", " ", "t", "o">>),
                   Str(<<"c", "h", "e", "c", "k", "i", "n", "g">>),
                   Str(<<"s", "a", "v", "i", "n", "g", "s">>)>>],
    [category |-> "Fees",
     keywords |-> <<Str(<<"f", "e", "e">>),
                   Str(<<"b", "a", "n", "k", " ", "c", "h", "a", "r", "g", "e">>),
                   Str(<<"s", "e", "r", "v", "i", "c", "e", " ", "c", "h", "a", "r", "g", "e">>)>>]
    >>

\* The index of the first entry of a table that accepts the text, or 0.
FirstEntry(table, Accepts(_)) ==
    LET hits == {i \in 1..Len(table) : Accepts(table[i])}
    IN  IF hits = {} THEN 0 ELSE CHOOSE i \in hits : \A j \in hits : i <= j

AnyPattern(patterns, str) == \E p \in 1..Len(patterns) : RegExpTest(patterns[p], str)

\* The categorisation by description and type shared by both versions of
\* categorizeTransaction: income first, then transfers by type, then the
\* pattern table without its income entry.
CategorizeByText(patterns, income, creditTypes, description, type, amount) ==
    LET cleanDesc == toLowerCase(description)
        typeLower == toLowerCase(type)
        incomeRow == CHOOSE i \in 1..Len(patterns) : patterns[i].category = income
        hit == FirstEntry(patterns,
                   LAMBDA row : row.category # income /\ AnyPattern(row.patterns, cleanDesc))
    IN  IF /\ amount > 0 \/ includes(typeLower, Str(<<"c", "r", "e", "d", "i", "t">>))
           /\ \/ AnyPattern(patterns[incomeRow].patterns, cleanDesc)
              \/ \E t \in creditTypes : includes(typeLower, t)
        THEN income
        ELSE IF includes(typeLower, Str(<<"x", "f", "e", "r">>)) \/ includes(typeLower, Str(<<"t", "r", "a", "n", "s", "f", "e", "r">>))
        THEN "Transfers"
        ELSE IF hit # 0 THEN patterns[hit].category
        ELSE "Miscellaneous"

\* categorizeTransaction: the QuickBooks account name decides when it names
\* a known category; otherwise description, type and amount do.
categorizeTransaction(description, type, amount, qbCategory) ==
    LET qbLower == toLowerCase(qbCategory)
        qbHit == IF qbCategory = <<>> THEN 0
                 ELSE FirstEntry(QuickBooksCategories,
                          LAMBDA row : \E k \in 1..Len(row.keywords) : includes(qbLower, row.keywords[k]))
    IN  IF qbHit # 0 THEN QuickBooksCategories[qbHit].category
        ELSE CategorizeByText(categoryPatterns, "Sales",
                              {Str(<<"c", "r", "e", "d", "i", "t">>), Str(<<"a", "c", "h", "_", "c", "r", "e", "d", "i", "t">>), Str(<<"d", "e", "p", "o", "s", "i", "t">>)},
                              description, type, amount)

\* categoryPatterns of src/utils/financeUtils.ts.
categoryPatterns_V1 ==
    <<
    [category |-> "Subscriptions",
     patterns |-> <<<<Str(<<"s", "p", "o", "t", "i", "f", "y">>)>>,
                   <<Str(<<"n", "e", "t", "f", "l", "i", "x">>)>>,
                   <<Str(<<"h", "u", "l", "u">>)>>,
                   <<Str(<<"a", "p", "p", "l", "e">>)>>,
                   <<Str(<<"g", "o", "o", "g", "l", "e">>), Str(<<"s", "t", "o", "r", "a", "g", "e">>)>>,
                   <<Str(<<"d", "i", "a", "l", "p", "a", "d">>)>>,
                   <<Str(<<"c", "l", "o", "u", "d", "f", "l", "a", "r", "e">>)>>,
                   <<Str(<<"s", "q", "u", "a", "r", "e", "s", "p", "a", "c", "e">>)>>,
                   <<Str(<<"s", "q", "s", "p">>)>>,
                   <<Str(<<"l", "o", "v", "a", "b", "l", "e">>)>>>>],
    [category |-> "Fuel",
     patterns |-> <<<<Str(<<"v", "a", "l", "e", "r", "o">>)>>,
                   <<Str(<<"s", "h", "e", "l", "l">>)>>,
                   <<Str(<<"e", "x", "x", "o", "n">>)>>,
                   <<Str(<<"c", "h", "e", "v", "r", "o", "n">>)>>,
                   <<Str(<<"f", "u", "e", "l">>)>>,
                   <<Str(<<"g", "a", "s">>)>>,
                   <<Str(<<"p", "i", "l", "o", "t">>)>>,
                   <<Str(<<"t", "a">>) \o <<SpaceClass>>>>,
                   <<Str(<<"l", "o", "v", "e", "s">>)>>,
                   <<Str(<<"p", "e", "t", "r", "o">>)>>>>],
    [category |-> "Software",
     patterns |-> <<<<Str(<<"g", "i", "t", "h", "u", "b">>)>>,
                   <<Str(<<"a", "d", "o", "b", "e">>)>>,
                   <<Str(<<"m", "i", "c", "r", "o", "s", "o", "f", "t">>)>>,
                   <<Str(<<"z", "o", "o", "m">>)>>,
                   <<Str(<<"s", "l", "a", "c", "k">>)>>,
                   <<Str(<<"a", "w", "s">>)>>,
                   <<Str(<<"h", "e", "r", "o", "k", "u">>)>>,
                   <<Str(<<"f", "r", "o", "n", "t", ".", "c", "o", "m">>)>>,
                   <<Str(<<"c", "a", "r", "g", "a", "d", "o">>)>>>>],
    [category |-> "Suppliers",
     patterns |-> <<<<Str(<<"s", "u", "p", "p", "l", "i", "e", "r">>)>>,
                   <<Str(<<"w", "h", "o", "l", "e", "s", "a", "l", "e">>)>>,
                   <<Str(<<"p", "a", "r", "t", "s">>)>>,
                   <<Str(<<"e", "q", "u", "i", "p", "m", "e", "n", "t">>)>>,
                   <<Str(<<"v", "o", "l", "p", "e">>)>>,
                   <<Str(<<"b", "e", "a", "m">>)>>>>],
    [category |-> "Utilities",
     patterns |-> <<<<Str(<<"u", "t", "i", "l", "i", "t", "y">>)>>,
                   <<Str(<<"e", "l", "e", "c", "t", "r", "i", "c">>)>>,
                   <<Str(<<"w", "a", "t", "e", "r">>)>>,
                   <<Str(<<"p", "o", "w", "e", "r">>)>>,
                   <<Str(<<"e", "n", "e", "r", "g", "y">>)>>>>],
    [category |-> "Transfers",
     patterns |-> <<<<Str(<<"t", "r", "a", "n", "s", "f", "e", "r">>)>>,
                   <<Str(<<"x", "f", "e", "r">>)>>,
                   <<Str(<<"a", "c", "c", "t", "_", "x", "f", "e", "r">>)>>,
                   <<Str(<<"z", "e", "l", "l", "e">>)>>,
                   <<Str(<<"v", "e", "n", "m", "o">>)>>,
                   <<Str(<<"p", "a", "y", "p", "a", "l">>)>>>>],
    [category |-> "Fees",
     patterns |-> <<<<Str(<<"f", "e", "e">>)>>,
                   <<Str(<<"c", "h", "a", "r", "g", "e">>)>>,
                   <<Str(<<"o", "v", "e", "r", "d", "r", "a", "f", "t">>)>>,
                   <<Str(<<"n", "s", "f">>)>>,
                   <<Str(<<"s", "e", "r", "v", "i", "c", "e", " ", "c", "h", "a", "r", "g", "e">>)>>>>],
    [category |-> "Income",
     patterns |-> <<<<Str(<<"d", "e", "p", "o", "s", "i", "t">>)>>,
                   <<Str(<<"c", "r", "e", "d", "i", "t">>)>>,
                   <<Str(<<"i", "n", "v", "o", "i", "c", "e">>)>>,
                   <<Str(<<"p", "a", "y", "m", "e", "n", "t">>), Str(<<"r", "e", "c", "e", "i", "v", "e", "d">>)>>,
                   <<Str(<<"m", "a", "r", "g", "i", "n", " ", "f", "r", "e", "i", "g", "h", "t">>)>>,
                   <<Str(<<"a", "c", "h", "_", "c", "r", "e", "d", "i", "t">>)>>>>],
    [category |-> "Taxes",
     patterns |-> <<<<Str(<<"r", "e", "v", "e", "n", "u", "e">>), Str(<<"d", "e", "p", "a", "r", "t", "m", "e", "n", "t">>)>>,
                   <<Str(<<"i", "r", "s">>)>>,
                   <<Str(<<"t", "a", "x">>)>>,
                   <<Str(<<"s", "t", "a", "t", "e">>), Str(<<"t", "a", "x">>)>>>>],
    [category |-> "Insurance",
     patterns |-> <<<<Str(<<"i", "n", "s", "u", "r", "a", "n", "c", "e">>)>>,
                   <<Str(<<"g", "e", "i", "c", "o">>)>>,
                   <<Str(<<"a", "l", "l", "s", "t", "a", "t", "e">>)>>,
                   <<Str(<<"p", "r", "o", "g", "r", "e", "s", "s", "i", "v", "e">>)>>,
                   <<Str(<<"s", "t", "a", "t", "e", " ", "f", "a", "r", "m">>)>>,
                   <<Str(<<"h", "e", "n", "d", "e", "r", "s", "h">>)>>>>],
    [category |-> "Miscellaneous",
     patterns |-> <<>>]
    >>

\* categorizeTransaction of src/utils/financeUtils.ts.
categorizeTransaction_V1(description, type, amount) ==
    CategorizeByText(categoryPatterns_V1, "Income", {Str(<<"c", "r", "e", "d", "i", "t">>), Str(<<"a", "c", "h", "_", "c", "r", "e", "d", "i", "t">>)},
                     description, type, amount)

\* The character of str at position i, or 0 outside the string.
At(str, i) == IF i >= 1 /\ i <= Len(str) THEN str[i] ELSE 0

\* \d{k} at position i.
DigitsAt(str, i, k) == \A j \in 0..(k - 1) : IsDigitChar(At(str, i + j))

\* \w: a letter, a digit or the underscore.
IsWordChar(c) == IsDigitChar(c) \/ IsUpperChar(c) \/ IsLowerChar(c) \/ c = 95

\* str.replace(/pattern/g, repl) for a pattern without empty matches:
\* MatchLen(str, i) is the length of the match that starts at i, or 0; the
\* text is scanned from the left and a match is skipped as a whole.
ReplaceAll(str, MatchLen(_, _), repl) ==
    LET n == Len(str)
        out[i \in 1..(n + 1)] ==
            IF i > n THEN <<>>
            ELSE LET m == MatchLen(str, i)
                 IN  IF m > 0 THEN repl \o out[Min(i + m, n + 1)]
                     ELSE << str[i] >> \o out[i + 1]
    IN  out[1]

\* The end of the match of an anchored noise pattern from element k on, the
\* text before pos being matched already; 0 when the pattern fails.  The
\* elements are: a literal, \s*, \s+, an optional character, and an optional
\* word followed by \s+.
RECURSIVE NoiseEnd(_, _, _, _)
NoiseEnd(str, pos, elems, k) ==
    IF k > Len(elems) THEN pos
    ELSE LET e == elems[k]
             wordEnd == pos + Len(e.text) + SpaceRun(str, pos + Len(e.text), 1)
         IN  IF e.kind = "lit"
             THEN IF OccursAt(toUpperCase(str), e.text, pos)
                  THEN NoiseEnd(str, pos + Len(e.text), elems, k + 1) ELSE 0
             ELSE IF e.kind = "spaces"
             THEN NoiseEnd(str, pos + SpaceRun(str, pos, 1), elems, k + 1)
             ELSE IF e.kind = "spaces1"
             THEN IF SpaceRun(str, pos, 1) >= 1
                  THEN NoiseEnd(str, pos + SpaceRun(str, pos, 1), elems, k + 1) ELSE 0
             ELSE IF e.kind = "optional"
             THEN NoiseEnd(str, IF At(str, pos) = e.text[1] THEN pos + 1 ELSE pos, elems, k + 1)
             ELSE IF OccursAt(toUpperCase(str), e.text, pos)
                     /\ SpaceRun(str, pos + Len(e.text), 1) >= 1
                  THEN NoiseEnd(str, wordEnd, elems, k + 1)
                  ELSE NoiseEnd(str, pos, elems, k + 1)

\* noisePatterns: the payment-processor prefixes, in the order they are
\* removed.
noisePatterns ==
    <<
    <<[kind |-> "lit", text |-> Str(<<"S", "Q">>)], [kind |-> "spaces", text |-> <<>>], [kind |-> "optional", text |-> Str(<<"*">>)]>>,
    <<[kind |-> "lit", text |-> Str(<<"P", "A", "Y", "P", "A", "L">>)], [kind |-> "spaces", text |-> <<>>], [kind |-> "optional", text |-> Str(<<"*">>)]>>,
    <<[kind |-> "lit", text |-> Str(<<"V", "E", "N", "M", "O">>)], [kind |-> "spaces", text |-> <<>>], [kind |-> "optional", text |-> Str(<<"*">>)]>>,
    <<[kind |-> "lit", text |-> Str(<<"A", "P", "P", "L", "E", ".", "C", "O", "M", "/", "B", "I", "L", "L">>)]>>,
    <<[kind |-> "lit", text |-> Str(<<"A", "P", "P", "L", "E">>)], [kind |-> "spaces", text |-> <<>>], [kind |-> "lit", text |-> Str(<<"P", "A", "Y">>)], [kind |-> "spaces", text |-> <<>>]>>,
    <<[kind |-> "lit", text |-> Str(<<"G", "O", "O", "G", "L", "E">>)], [kind |-> "spaces", text |-> <<>>], [kind |-> "optional", text |-> Str(<<"*">>)]>>,
    <<[kind |-> "lit", text |-> Str(<<"A", "M", "Z", "N">>)], [kind |-> "spaces", text |-> <<>>], [kind |-> "lit", text |-> Str(<<"M", "K", "T", "P">>)], [kind |-> "spaces", text |-> <<>>]>>,
    <<[kind |-> "lit", text |-> Str(<<"A", "M", "A", "Z", "O", "N">>)], [kind |-> "spaces", text |-> <<>>]>>,
    <<[kind |-> "lit", text |-> Str(<<"T", "S", "T">>)], [kind |-> "spaces", text |-> <<>>], [kind |-> "optional", text |-> Str(<<"*">>)]>>,
    <<[kind |-> "lit", text |-> Str(<<"P", "O", "S">>)], [kind |-> "spaces1", text |-> <<>>], [kind |-> "optionalWord", text |-> Str(<<"P", "U", "R", "C", "H", "A", "S", "E">>)]>>,
    <<[kind |-> "lit", text |-> Str(<<"P", "U", "R", "C", "H", "A", "S", "E">>)], [kind |-> "spaces1", text |-> <<>>]>>,
    <<[kind |-> "lit", text |-> Str(<<"D", "E", "B", "I", "T">>)], [kind |-> "spaces1", text |-> <<>>], [kind |-> "optionalWord", text |-> Str(<<"C", "A", "R", "D">>)]>>,
    <<[kind |-> "lit", text |-> Str(<<"R", "E", "C", "U", "R", "R", "I", "N", "G">>)], [kind |-> "spaces1", text |-> <<>>]>>,
    <<[kind |-> "lit", text |-> Str(<<"O", "N", "L", "I", "N", "E">>)], [kind |-> "spaces1", text |-> <<>>], [kind |-> "optionalWord", text |-> Str(<<"P", "A", "Y", "M", "E", "N", "T">>)]>>,
    <<[kind |-> "lit", text |-> Str(<<"A", "C", "H">>)], [kind |-> "spaces1", text |-> <<>>], [kind |-> "optionalWord", text |-> Str(<<"D", "E", "B", "I", "T">>)]>>,
    <<[kind |-> "lit", text |-> Str(<<"C", "H", "E", "C", "K", "C", "A", "R", "D">>)], [kind |-> "spaces1", text |-> <<>>]>>,
    <<[kind |-> "lit", text |-> Str(<<"V", "I", "S", "A">>)], [kind |-> "spaces1", text |-> <<>>]>>,
    <<[kind |-> "lit", text |-> Str(<<"M", "A", "S", "T", "E", "R", "C", "A", "R", "D">>)], [kind |-> "spaces1", text |-> <<>>]>>
    >>

\* cleaned.replace(pattern, '') for each noise pattern from k on.
RECURSIVE StripNoise(_, _)
StripNoise(cleaned, k) ==
    IF k > Len(noisePatterns) THEN cleaned
    ELSE LET end == NoiseEnd(cleaned, 1, noisePatterns[k], 1)
         IN  IF end = 0 THEN StripNoise(cleaned, k + 1)
             ELSE StripNoise(SubSeq(cleaned, end, Len(cleaned)), k + 1)

\* /\d{2}\/\d{2}(\/\d{2,4})?/ : dates MM/DD or MM/DD/YY.
ShortDateLen(str, i) ==
    IF DigitsAt(str, i, 2) /\ At(str, i + 2) = 47 /\ DigitsAt(str, i + 3, 2)
    THEN IF At(str, i + 5) = 47 /\ DigitsAt(str, i + 6, 2)
         THEN 6 + Min(DigitRun(str, i + 6), 4) ELSE 5
    ELSE 0

\* /\d{2}\/\d{2}/
MonthDayLen(str, i) ==
    IF DigitsAt(str, i, 2) /\ At(str, i + 2) = 47 /\ DigitsAt(str, i + 3, 2) THEN 5 ELSE 0

\* /\d{3}[-.\s]?\d{3}[-.\s]?\d{4}/ : phone numbers.
PhoneLen(str, i) ==
    LET sep(p) == IF At(str, p) \in {45, 46} \/ IsSpaceChar(At(str, p)) THEN 1 ELSE 0
        second == i + 3 + sep(i + 3)
        third  == second + 3 + sep(second + 3)
    IN  IF DigitsAt(str, i, 3) /\ DigitsAt(str, second, 3) /\ DigitsAt(str, third, 4)
        THEN third + 4 - i ELSE 0

\* /\d{6,}/ : long digit sequences.
LongDigitsLen(str, i) == IF DigitRun(str, i) >= 6 THEN DigitRun(str, i) ELSE 0

\* /#\d+/ : reference numbers.
ReferenceLen(str, i) ==
    IF str[i] = 35 /\ DigitRun(str, i + 1) >= 1 THEN 1 + DigitRun(str, i + 1) ELSE 0

\* /TRANSACTION#?:?\s*\d*/i
TransactionLen(str, i) ==
    LET word   == Str(<<"T", "R", "A", "N", "S", "A", "C", "T", "I", "O", "N">>)
        hash   == IF At(str, i + Len(word)) = 35 THEN 1 ELSE 0
        colon  == IF At(str, i + Len(word) + hash) = 58 THEN 1 ELSE 0
        spaces == SpaceRun(str, i + Len(word) + hash + colon, 1)
        digits == DigitRun(str, i + Len(word) + hash + colon + spaces)
    IN  IF OccursAt(toUpperCase(str), word, i)
        THEN Len(word) + hash + colon + spaces + digits ELSE 0

\* /transaction#:\s*\d+/i
TransactionNumberLen(str, i) ==
    LET word   == Str(<<"T", "R", "A", "N", "S", "A", "C", "T", "I", "O", "N", "#", ":">>)
        spaces == SpaceRun(str, i + Len(word), 1)
        digits == DigitRun(str, i + Len(word) + spaces)
    IN  IF OccursAt(toUpperCase(str), word, i) /\ digits >= 1
        THEN Len(word) + spaces + digits ELSE 0

\* /\*+/
RECURSIVE AsterisksLen(_, _)
AsterisksLen(str, i) == IF At(str, i) = 42 THEN 1 + AsterisksLen(str, i + 1) ELSE 0

\* /[^\w\s&'-]/
PunctuationLen(str, i) ==
    IF IsWordChar(str[i]) \/ IsSpaceChar(str[i]) \/ str[i] \in {38, 39, 45} THEN 0 ELSE 1

\* /\s+/
SpacesLen(str, i) == SpaceRun(str, i, 1)

\* Array.join(' ')
RECURSIVE JoinWords(_)
JoinWords(words) ==
    IF words = <<>> THEN <<>>
    ELSE IF Len(words) = 1 THEN words[1]
    ELSE words[1] \o << 32 >> \o JoinWords(Tail(words))

\* Array.slice(0, 3)
FirstThree(words) == SubSeq(words, 1, Min(3, Len(words)))

\* The replacements of normalizeVendor after the prefixes: dates, phone
\* numbers, long digit sequences, reference numbers and TRANSACTION numbers
\* are removed.
RemoveNumbers(cleaned) ==
    ReplaceAll(ReplaceAll(ReplaceAll(ReplaceAll(ReplaceAll(cleaned,
        ShortDateLen, <<>>), PhoneLen, <<>>), LongDigitsLen, <<>>),
        ReferenceLen, <<>>), TransactionLen, <<>>)

\* Then asterisks, punctuation and runs of whitespace become one space.
CollapseSpaces(cleaned) ==
    ReplaceAll(ReplaceAll(ReplaceAll(cleaned,
        AsterisksLen, << 32 >>), PunctuationLen, << 32 >>), SpacesLen, << 32 >>)

\* words.join(' ') || cleaned || description.toUpperCase(), the words being
\* the first three of more than one character.
WordsOrCleaned(upper, cleaned) ==
    LET orElse(normalized) ==
            IF normalized # <<>> THEN normalized
            ELSE IF cleaned # <<>> THEN cleaned
            ELSE upper
    IN  orElse(JoinWords(FirstThree(SelectSeq(split(cleaned, 32), LAMBDA w : Len(w) > 1))))

\* normalizeVendor: upper case, without processor prefixes, dates, phone
\* numbers, long numbers, references and punctuation; the first three words
\* of more than one character.
normalizeVendor(description) ==
    WordsOrCleaned(toUpperCase(description),
                   trim(CollapseSpaces(RemoveNumbers(StripNoise(toUpperCase(description), 1)))))

\* extractVendorName of src/utils/financeUtils.ts: without dates and long
\* numbers, the first three words in lower case.
extractVendorName_V1(description) ==
    LET r1 == ReplaceAll(description, MonthDayLen, <<>>)
        r2 == ReplaceAll(r1, LongDigitsLen, <<>>)
        r3 == ReplaceAll(r2, TransactionNumberLen, <<>>)
        cleaned == trim(ReplaceAll(r3, SpacesLen, << 32 >>))
        orElse(words) == IF words # <<>> THEN words ELSE toLowerCase(description)
    IN  orElse(toLowerCase(JoinWords(FirstThree(split(cleaned, 32)))))

\* Math.abs
Abs(x) == IF x < 0 THEN -x ELSE x

\* The sum of a sequence of numbers.
RECURSIVE SumSeq(_)
SumSeq(seq) == IF seq = <<>> THEN 0 ELSE Head(seq) + SumSeq(Tail(seq))

\* The known cadences, as the least and greatest median gap in days.
CadencePatterns ==
    << [name |-> "weekly",    min |-> 5,   max |-> 9],
       [name |-> "biweekly",  min |-> 12,  max |-> 16],
       [name |-> "monthly",   min |-> 25,  max |-> 35],
       [name |-> "bimonthly", min |-> 55,  max |-> 65],
       [name |-> "quarterly", min |-> 85,  max |-> 100],
       [name |-> "annual",    min |-> 350, max |-> 380] >>

\* checkCadencePattern: the median gap lies in a known cadence, or at least
\* 70% of the gaps are within 25% of the median.  The median of an even
\* number of gaps may end in .5, so twice the median is compared.
checkCadencePattern(intervals) ==
    LET n      == Len(intervals)
        sorted == StableSort(intervals, LAMBDA a, b : a - b)
        mid    == n \div 2
        median2 == IF n % 2 # 0 THEN 2 * sorted[mid + 1]
                   ELSE sorted[mid] + sorted[mid + 1]
        withinTolerance ==
            {i \in 1..n : 4 * Abs(2 * intervals[i] - median2) <= median2}
    IN  IF n = 0 THEN FALSE
        ELSE \/ \E p \in 1..Len(CadencePatterns) :
                    /\ median2 >= 2 * CadencePatterns[p].min
                    /\ median2 <= 2 * CadencePatterns[p].max
             \/ 10 * Cardinality(withinTolerance) >= 7 * n

\* The tolerance of 15 dollars on the amounts of a vendor, in cents.
AmountToleranceCents == 15 * 100

\* Variant: the amounts are not looked at.
VendorIsRecurring_AnyAmounts(txs) ==
    LET sorted == StableSort(txs, LAMBDA a, b : DateFromISO(a.date) - DateFromISO(b.date))
    IN  Len(txs) >= 2
        /\ checkCadencePattern([i \in 1..(Len(txs) - 1) |->
                DateFromISO(sorted[i + 1].date) - DateFromISO(sorted[i].date)])

\* The verdict of detectRecurring on one vendor's expenses txs (in list
\* order): at least two of them, every amount within 20% of the mean or 15
\* dollars of it, whichever is greater, and gaps that make a cadence.  The
\* comparison with the mean is made in exact arithmetic.
VendorIsRecurring(txs) ==
    LET n        == Len(txs)
        sorted   == StableSort(txs, LAMBDA a, b : DateFromISO(a.date) - DateFromISO(b.date))
        intervals == [i \in 1..(n - 1) |->
                         DateFromISO(sorted[i + 1].date) - DateFromISO(sorted[i].date)]
        amounts  == [i \in 1..n |-> Abs(txs[i].amount)]
        total    == SumSeq(amounts)
        amountsSimilar ==
            \A i \in 1..n :
                5 * Abs(n * amounts[i] - total) <= Max(total, 5 * n * AmountToleranceCents)
    IN  n >= 2 /\ amountsSimilar /\ checkCadencePattern(intervals)

\* The normalized vendor of each transaction of a list; only those of the
\* expenses are computed.
RECURSIVE ExpenseVendors(_)
ExpenseVendors(transactions) ==
    IF transactions = <<>> THEN <<>>
    ELSE << IF Head(transactions).amount < 0
            THEN normalizeVendor(Head(transactions).description)
            ELSE <<>> >> \o ExpenseVendors(Tail(transactions))

\* detectRecurring: for each transaction of the list, the entry of the
\* returned map under its id.  Transactions that are not expenses are
\* entered first, then the vendors in the order of their first expense; an
\* entry made later under the same id replaces the earlier one.
RecurringByVendor(transactions, vendor) ==
    LET n        == Len(transactions)
        expense(i) == transactions[i].amount < 0
        group(i) == {j \in 1..n : expense(j) /\ vendor[j] = vendor[i]}
        first(i) == CHOOSE j \in group(i) : \A k \in group(i) : j <= k
        members(i) == SelectSeq([j \in 1..n |-> j], LAMBDA j : j \in group(i))
        verdict  == [i \in 1..n |->
                        IF expense(i)
                        THEN VendorIsRecurring([k \in 1..Len(members(i)) |->
                                                   transactions[members(i)[k]]])
                        ELSE FALSE]
        entered(i) == IF expense(i) THEN << 1, first(i), i >> ELSE << 0, 0, i >>
        later(a, b) == \/ a[1] > b[1]
                       \/ a[1] = b[1] /\ a[2] > b[2]
                       \/ a[1] = b[1] /\ a[2] = b[2] /\ a[3] >= b[3]
        sameId(i) == {j \in 1..n : transactions[j].id = transactions[i].id}
        last(i)  == CHOOSE j \in sameId(i) : \A k \in sameId(i) : later(entered(j), entered(k))
    IN  [i \in 1..n |-> verdict[last(i)]]

detectRecurring(transactions) ==
    RecurringByVendor(transactions, ExpenseVendors(transactions))

\* The vendor name of each transaction of a list.
RECURSIVE VendorNames_V1(_)
VendorNames_V1(transactions) ==
    IF transactions = <<>> THEN <<>>
    ELSE << extractVendorName_V1(Head(transactions).description) >>
         \o VendorNames_V1(Tail(transactions))

\* detectRecurring of src/utils/financeUtils.ts: the vendor name appears in
\* at least two transactions.  The ids of that version differ by index, so
\* every transaction reads back its own entry.
RecurringByVendor_V1(transactions, vendor) ==
    LET n == Len(transactions)
    IN  [i \in 1..n |-> Cardinality({j \in 1..n : vendor[j] = vendor[i]}) >= 2]

detectRecurring_V1(transactions) ==
    RecurringByVendor_V1(transactions, VendorNames_V1(transactions))

\* transactions.forEach(tx => tx.isRecurring = recurringMap.get(tx.id) || false)
WithRecurring(transactions, recurringMap) ==
    [i \in 1..Len(transactions) |-> [transactions[i] EXCEPT !.isRecurring = recurringMap[i]]]

\* const recurringMap = detectRecurring(transactions), then the loop above.
MarkRecurring_V1(transactions) == WithRecurring(transactions, detectRecurring_V1(transactions))

\* Variant: every transaction is flagged.
MarkRecurring_AllFlagged(transactions) ==
    [i \in 1..Len(transactions) |-> [transactions[i] EXCEPT !.isRecurring = TRUE]]

MarkRecurring(transactions) == WithRecurring(transactions, detectRecurring(transactions))

\* getNextBusinessDay of src/utils/financeUtils.ts: the day reached after
\* daysAfter weekdays; holidays are not known to it.
RECURSIVE NextBusinessDayLoop(_, _, _)
NextBusinessDayLoop(date, businessDays, daysAfter) ==
    IF businessDays < daysAfter
    THEN NextBusinessDayLoop(date + 1,
                             IF ~IsWeekend(date + 1) THEN businessDays + 1 ELSE businessDays,
                             daysAfter)
    ELSE date

getNextBusinessDay(fromDate, daysAfter) == NextBusinessDayLoop(fromDate, 0, daysAfter)

\* getPayPeriods of src/utils/financeUtils.ts.
getPayPeriods_V1(year, month) ==
    LET firstCutoff == MkDate(year, month, 15)
        lastDay     == MkDate(year, month + 1, 0)
    IN  << [cutoffDate      |-> firstCutoff,
            calculationDate |-> getNextBusinessDay(firstCutoff, 1),
            paymentDate     |-> getNextBusinessDay(firstCutoff, PaymentBusinessDays)],
           [cutoffDate      |-> lastDay,
            calculationDate |-> getNextBusinessDay(lastDay, 1),
            paymentDate     |-> getNextBusinessDay(lastDay, PaymentBusinessDays)] >>

\* determinePayPeriodImpact of src/utils/financeUtils.ts.
determinePayPeriodImpact_V1(dateStr, west) ==
    LET nextCutoff(year, month, periods, i) ==
            IF i < Len(periods) THEN periods[i + 1].cutoffDate
            ELSE MkDate(year, month + 1, 15)
        inPeriods(date, year, month, periods) ==
            \E i \in 1..Len(periods) :
                date >= periods[i].paymentDate /\ date < nextCutoff(year, month, periods, i)
        inMonth(date, year, month) ==
            inPeriods(date, year, month, getPayPeriods_V1(year, month))
        impact(date) == inMonth(date, getFullYear(date), getMonth(date))
    IN  impact(LocalDayOfISO(dateStr, west))

\* The base key of a raw record: parsed date, amount, and the trimmed
\* lower-cased type, description and category hint, joined by '|'.
BaseKey(tx, now) ==
    parseDate(tx.postingDate, now) \o Str(<<"|">>) \o NumberToString(tx.amount) \o Str(<<"|">>)
    \o toLowerCase(trim(tx.type)) \o Str(<<"|">>) \o toLowerCase(trim(tx.description)) \o Str(<<"|">>)
    \o toLowerCase(trim(tx.qbCategory))

\* makeStableTxId: 'tx_' and the base-36 FNV-1a hash of the base key followed
\* by '|#' and the occurrence.
makeStableTxId(rawTx, occurrence, now) ==
    Str(<<"t", "x", "_">>) \o WordToString36(fnv1a32(BaseKey(rawTx, now) \o Str(<<"|", "#">>) \o NatToStr(occurrence)))

\* The occurrence the counter yields for the i-th sorted record when every
\* record is counted under one key.
NextOccurrence_SharedCounter(baseKeys, i) == i

\* (occurrenceCounter.get(baseKey) ?? 0) + 1 when the map reaches the i-th
\* sorted record: one more than the earlier records with its base key.
NextOccurrence(baseKeys, i) ==
    1 + Cardinality({j \in 1..(i - 1) : baseKeys[j] = baseKeys[i]})

\* The order in which balances accumulate when the newest-first list is
\* walked as it stands.
Chronological_NewestFirst(transactions) == transactions

\* [...transactions].reverse(): oldest first.
Chronological(transactions) ==
    [i \in 1..Len(transactions) |-> transactions[Len(transactions) + 1 - i]]

\* The running balances of a chronological list: balance += tx.amount.
RECURSIVE RunningBalances(_, _)
RunningBalances(chronological, balance) ==
    IF chronological = <<>> THEN <<>>
    ELSE << balance + Head(chronological).amount >>
         \o RunningBalances(Tail(chronological), balance + Head(chronological).amount)

\* The list with tx.runningBalance set along the chronological walk.
WithRunningBalances(transactions, startingBalance) ==
    LET n        == Len(transactions)
        order    == Chronological([i \in 1..n |-> i])
        balances == RunningBalances([k \in 1..n |-> transactions[order[k]]], startingBalance)
    IN  [i \in 1..n |->
            [transactions[i] EXCEPT
                !.runningBalance = balances[CHOOSE k \in 1..n : order[k] = i]]]

\* processTransactions: sorted newest first with tie-breaks, stable ids,
\* categories, recurring flags, running balances from the oldest record up.
processTransactions(raw, startingBalance, now, west) ==
    LET transaction(tx, occurrence, date) ==
            [id              |-> makeStableTxId(tx, occurrence, now),
             date            |-> date,
             description     |-> tx.description,
             amount          |-> tx.amount,
             type            |-> tx.type,
             isRecurring     |-> FALSE,
             category        |-> categorizeTransaction(tx.description, tx.type,
                                     tx.amount, tx.qbCategory),
             payPeriodImpact |-> determinePayPeriodImpact(date, west),
             runningBalance  |-> 0,
             originalBalance |-> tx.balance]
        transactions(sorted, baseKeys) ==
            [i \in 1..Len(sorted) |->
                transaction(sorted[i], NextOccurrence(baseKeys, i),
                            parseDate(sorted[i].postingDate, now))]
        mapped(sorted) ==
            transactions(sorted, [i \in 1..Len(sorted) |-> BaseKey(sorted[i], now)])
    IN  WithRunningBalances(
            MarkRecurring(mapped(StableSort(raw, LAMBDA a, b : CompareRaw(a, b, now)))),
            startingBalance)

\* String(Date.now()): the milliseconds since the epoch at ms milliseconds
\* into the day, 86400000 to the day, written in two parts of which the
\* second holds the last five digits.
DateNowString(day, ms) ==
    LET low  == ms % 100000
        high == day * 864 + ms \div 100000
        pad  == [i \in 1..(5 - Len(NatToStr(low))) |-> 48]
    IN  NatToStr(high) \o pad \o NatToStr(low)

\* processTransactions of src/utils/financeUtils.ts: sorted by date only,
\* ids made of the index and Date.now().
processTransactions_V1(raw, startingBalance, now, ms, west) ==
    LET transaction(tx, index, date) ==
            [id              |-> Str(<<"t", "x", "-">>) \o NatToStr(index) \o Str(<<"-">>) \o DateNowString(now, ms),
             date            |-> date,
             description     |-> tx.description,
             amount          |-> tx.amount,
             type            |-> tx.type,
             isRecurring     |-> FALSE,
             category        |-> categorizeTransaction_V1(tx.description, tx.type, tx.amount),
             payPeriodImpact |-> determinePayPeriodImpact_V1(date, west),
             runningBalance  |-> 0,
             originalBalance |-> tx.balance]
        mapped(sorted) ==
            [i \in 1..Len(sorted) |->
                transaction(sorted[i], i - 1, parseDate(sorted[i].postingDate, now))]
    IN  WithRunningBalances(
            MarkRecurring_V1(mapped(StableSort(raw, LAMBDA a, b : CompareRaw_V1(a, b, now)))),
            startingBalance)

(***************************************************************************)
(* Bounds of the model.                                                     *)
(***************************************************************************)

\* The reference dates: NumDays days from 2024-12-20 on, which covers the
\* three years of the holiday table.
FirstDay == DaysFromCivil(2024, 12, 20)
NumDays == 1110
Days == FirstDay .. (FirstDay + NumDays)

(***************************************************************************)
(* The schedule calculator applied to every reference date.                 *)
(***************************************************************************)

InitSchedule ==
    /\ today \in Days
    /\ tick = 0
    /\ nthCall = None
    /\ schedCall = None
    /\ billsBeforePayday = <<>>
    /\ currentBalance = 0
    /\ nextCommission = None
    /\ projection = None
    /\ rawData = <<>>
    /\ settings = [startingBalance |-> 0]
    /\ zoneWest = FALSE
    /\ processed = <<>>
    /\ callArgs = None
    /\ callResult = None
    /\ transactionOverrides = <<>>
    /\ paydayInfo = None
    /\ storedBills = <<>>
    /\ dismissedSuggestions = {}
    /\ ignoredVendors = {}
    /\ lastRemoved = None

CallGetNthBusinessDayAfter ==
    /\ \E n \in {1, PaymentBusinessDays} :
          nthCall' = [from |-> today, n |-> n,
                      result |-> getNthBusinessDayAfter(today, n)]
    /\ UNCHANGED <<clockVars, schedCall, projVars, ingestVars, callVars, overrideVars, paydayVars, billVars>>

CallGetNextScheduledPaymentDate ==
    /\ schedCall' = [today |-> today, period |-> getNextScheduledPaymentDate(today)]
    /\ UNCHANGED <<clockVars, nthCall, projVars, ingestVars, callVars, overrideVars, paydayVars, billVars>>

NextSchedule ==
    \/ CallGetNthBusinessDayAfter
    \/ CallGetNextScheduledPaymentDate

SpecSchedule == InitSchedule /\ [][NextSchedule]_vars

(***************************************************************************)
(* useFinanceCalculations.ts: the projection.                               *)
(***************************************************************************)

\* parseLocalDate of a 'YYYY-MM-DD' string, held as [y, m, d].
parseLocalDate(dateInput) == MkDate(dateInput.y, dateInput.m - 1, dateInput.d)

formatDateString(date) == CivilFromDays(date)

startOfDay(date) == MkDate(getFullYear(date), getMonth(date), getDate(date))


\* Math.round(num / den * 100) for den > 0: the nearest integer, a half
\* rounded towards +Infinity.
RoundPercent(num, den) == (200 * num + den) \div (2 * den)

RECURSIVE SumAmounts(_)
SumAmounts(billList) ==
    IF billList = <<>> THEN 0
    ELSE Head(billList).amount + SumAmounts(Tail(billList))

\* Variant: resolved bills are kept in the sum as well.
UnresolvedOf_All(billList) == billList

\* billsBeforePayday.filter((b) => !b.isResolved)
UnresolvedOf(billList) == SelectSeq(billList, LAMBDA b : ~b.isResolved)

ResolvedOf(billList) == SelectSeq(billList, LAMBDA b : b.isResolved)

\* Variant: the commission is folded into liquidity whatever its date.
CommissionAppliedToday_Always(commission, todayStart) == commission # None

\* commissionDate && startOfDay(commissionDate).getTime() === todayStart.getTime()
CommissionAppliedToday(commission, todayStart) ==
    IF commission = None THEN FALSE
    ELSE startOfDay(parseLocalDate(commission.expectedDate)) = todayStart

\* Variant: the shortfall is the signed difference.
Shortfall_Signed(amountToKeep, liquidityBalance) == amountToKeep - liquidityBalance

\* Math.max(0, amountToKeep - liquidityBalance)
Shortfall(amountToKeep, liquidityBalance) == Max(0, amountToKeep - liquidityBalance)

\* Variant: the percentage is not capped.
CoveragePercent_Uncapped(amountToKeep, liquidityBalance) ==
    IF amountToKeep > 0 THEN RoundPercent(liquidityBalance, amountToKeep) ELSE 100

CoveragePercent(amountToKeep, liquidityBalance) ==
    IF amountToKeep > 0
    THEN Min(100, RoundPercent(liquidityBalance, amountToKeep))
    ELSE 100

\* Variant: a commission already folded into liquidity is added again.
CommissionForProjection_DoubleCounted(commissionAppliedToday, commissionAmount) ==
    commissionAmount

\* commissionAppliedToday ? 0 : commissionAmount
CommissionForProjection(commissionAppliedToday, commissionAmount) ==
    IF commissionAppliedToday THEN 0 ELSE commissionAmount

useFinancialProjection(billList, balance, commission, now) ==
    LET todayStart       == startOfDay(now)
        unresolvedBills  == UnresolvedOf(billList)
        resolvedBills    == ResolvedOf(billList)
        amountToKeep     == SumAmounts(unresolvedBills)
        commissionAmount == IF commission = None THEN 0 ELSE commission.amount
        commissionAppliedToday == CommissionAppliedToday(commission, todayStart)
        liquidityBalance == balance + (IF commissionAppliedToday THEN commissionAmount ELSE 0)
        safeToSpend      == liquidityBalance - amountToKeep
        commissionForProjection ==
            CommissionForProjection(commissionAppliedToday, commissionAmount)
        shortfall        == Shortfall(amountToKeep, liquidityBalance)
    IN  [amountToKeep            |-> amountToKeep,
         liquidityBalance        |-> liquidityBalance,
         safeToSpend             |-> safeToSpend,
         projectedBalance        |-> safeToSpend + commissionForProjection,
         commissionForProjection |-> commissionForProjection,
         commissionAppliedToday  |-> commissionAppliedToday,
         resolvedCount           |-> Len(resolvedBills),
         pendingCount            |-> Len(unresolvedBills),
         coveragePercent         |-> CoveragePercent(amountToKeep, liquidityBalance),
         isShort                 |-> shortfall > 0,
         shortfall               |-> shortfall]

(***************************************************************************)
(* The projection applied to bounded inputs.                                *)
(***************************************************************************)

\* Bounds: at most MaxBills bills in the payday window, balances of up to
\* MaxBalanceSteps steps of MoneyStep on either side of zero, and a clock
\* that runs over NumProjDays days after ProjFirstDay.
MaxBills == 2
MoneyStep == 50
MaxBalanceSteps == 4
NumProjDays == 1
ProjFirstDay == DaysFromCivil(2025, 3, 4)
ProjDays == ProjFirstDay .. (ProjFirstDay + NumProjDays)

\* A bill's amount is any number the edit form parses, zero and negative
\* values included.
BillAmounts == {-MoneyStep, 0, MoneyStep, 2 * MoneyStep, 6 * MoneyStep}
\* A commission is only accepted with an amount > 0.
CommissionAmounts == {MoneyStep, 20 * MoneyStep}
Balances == {k * MoneyStep : k \in (-MaxBalanceSteps) .. MaxBalanceSteps}

BillsWithStatus == [amount : BillAmounts, isResolved : BOOLEAN]
BillLists == UNION {[1..n -> BillsWithStatus] : n \in 0..MaxBills}
Commissions ==
    {None} \cup [amount : CommissionAmounts,
                 expectedDate : {formatDateString(d) : d \in ProjDays}]

InitProjection ==
    /\ today = ProjFirstDay
    /\ tick = 0
    /\ nthCall = None
    /\ schedCall = None
    /\ billsBeforePayday \in BillLists
    /\ currentBalance \in Balances
    /\ nextCommission \in Commissions
    /\ projection = None
    /\ rawData = <<>>
    /\ settings = [startingBalance |-> 0]
    /\ zoneWest = FALSE
    /\ processed = <<>>
    /\ callArgs = None
    /\ callResult = None
    /\ transactionOverrides = <<>>
    /\ paydayInfo = None
    /\ storedBills = <<>>
    /\ dismissedSuggestions = {}
    /\ ignoredVendors = {}
    /\ lastRemoved = None

\* The wall clock passes midnight.
NextDay ==
    /\ today < ProjFirstDay + NumProjDays
    /\ today' = today + 1
    /\ tick' = 0
    /\ UNCHANGED <<schedVars, projVars, ingestVars, callVars, overrideVars, paydayVars, billVars>>

\* A render: the hook computes the projection from its three arguments and
\* the clock.
CallUseFinancialProjection ==
    /\ projection' = [today |-> today,
                      out |-> useFinancialProjection(billsBeforePayday, currentBalance,
                                                     nextCommission, today)]
    /\ UNCHANGED <<clockVars, schedVars, billsBeforePayday, currentBalance, nextCommission,
                   ingestVars, callVars, overrideVars, paydayVars, billVars>>

NextProjection ==
    \/ NextDay
    \/ CallUseFinancialProjection

SpecProjection == InitProjection /\ [][NextProjection]_vars

(***************************************************************************)
(* Index: the transactions computed from the stored file.                   *)
(***************************************************************************)

MaxRows == 2
MaxTicks == 1

\* The milliseconds of a day.
MsPerDay == 1000 * 60 * 60 * 24

BankHeader == Str(<<"D", "e", "t", "a", "i", "l", "s", ",", "P", "o", "s", "t", "i", "n", "g", " ", "D", "a", "t", "e", ",", "D", "e", "s", "c", "r", "i", "p", "t", "i", "o", "n", ",", "A", "m", "o", "u", "n", "t", ",", "T", "y", "p", "e", ",", "B", "a", "l", "a", "n", "c", "e", ",", "C", "h", "e", "c", "k", " ", "o", "r", " ", "S", "l", "i", "p", " ", "#">>)

\* Data rows of a bank export: a charge, the same charge spelled in lower
\* case, an income row dated with a two-digit year.
BankRowPool ==
    { Str(<<"D", "E", "B", "I", "T", ",", "0", "1", "/", "0", "5", "/", "2", "0", "2", "5", ",", "N", "E", "T", "F", "L", "I", "X", ".", "C", "O", "M", ",", "-", "1", "5", ".", "9", "9", ",", "A", "C", "H", "_", "D", "E", "B", "I", "T", ",", "1", "0", "0", "0", ".", "0", "0", ",", ",">>),
      Str(<<"D", "E", "B", "I", "T", ",", "0", "1", "/", "0", "5", "/", "2", "0", "2", "5", ",", "n", "e", "t", "f", "l", "i", "x", ".", "c", "o", "m", ",", "-", "1", "5", ".", "9", "9", ",", "A", "C", "H", "_", "D", "E", "B", "I", "T", ",", "1", "0", "0", "0", ".", "0", "0", ",", ",">>),
      Str(<<"C", "R", "E", "D", "I", "T", ",", "2", "/", "7", "/", "2", "5", ",", "P", "A", "Y", "R", "O", "L", "L", ",", "2", "5", "0", "0", ",", "A", "C", "H", "_", "C", "R", "E", "D", "I", "T", ",", "3", "4", "8", "4", ".", "0", "1", ",", ",">>) }

\* The content of a file: its lines joined by line feeds.
RECURSIVE JoinLines(_)
JoinLines(lines) ==
    IF lines = <<>> THEN <<>>
    ELSE Head(lines) \o << NEWLINE >> \o JoinLines(Tail(lines))

BankFiles ==
    { JoinLines(<< BankHeader >> \o rows) :
        rows \in UNION {[1..n -> BankRowPool] : n \in 0..MaxRows} }

ChaseCardFile ==
    (Str(<<"T", "r", "a", "n", "s", "a", "c", "t", "i", "o", "n", " ", "D", "a", "t", "e", ",", "P", "o", "s", "t", " ", "D", "a", "t", "e", ",", "D", "e", "s", "c", "r", "i", "p", "t", "i", "o", "n", ",", "C", "a", "t", "e", "g", "o", "r", "y", ",", "T", "y", "p", "e", ",", "A", "m", "o", "u", "n", "t", ",", "M", "e", "m", "o">>) \o <<NEWLINE>> \o Str(<<"0", "1", "/", "0", "3", "/", "2", "0", "2", "5", ",", "0", "1", "/", "0", "5", "/", "2", "0", "2", "5", ",", "S", "H", "E", "L", "L", " ", "O", "I", "L", ",", "G", "a", "s", ",", "S", "a", "l", "e", ",", "-", "4", "5", ".", "1", "0", ",">>) \o <<NEWLINE>> \o Str(<<"0", "1", "/", "0", "3", "/", "2", "0", "2", "5", ",", "0", "1", "/", "0", "5", "/", "2", "0", "2", "5", ",", "S", "H", "E", "L", "L", " ", "O", "I", "L", ",", "G", "a", "s", ",", "S", "a", "l", "e", ",", "-", "4", "5", ".", "1", "0", ",">>) \o <<NEWLINE>>)

QuickBooksFile ==
    (Str(<<"T", "r", "a", "n", "s", "a", "c", "t", "i", "o", "n", " ", "L", "i", "s", "t", " ", "b", "y", " ", "D", "a", "t", "e">>) \o <<NEWLINE>> \o Str(<<"D", "a", "t", "e", ",", "T", "r", "a", "n", "s", "a", "c", "t", "i", "o", "n", " ", "t", "y", "p", "e", ",", "N", "u", "m", ",", "P", "o", "s", "t", "i", "n", "g", ",", "N", "a", "m", "e", ",", "M", "e", "m", "o", "/", "D", "e", "s", "c", "r", "i", "p", "t", "i", "o", "n", ",", "A", "c", "c", "o", "u", "n", "t", " ", "n", "a", "m", "e", ",", "A", "c", "c", "o", "u", "n", "t", " ", "f", "u", "l", "l", " ", "n", "a", "m", "e", ",", "A", "m", "o", "u", "n", "t">>) \o <<NEWLINE>> \o Str(<<"0", "1", "/", "0", "5", "/", "2", "0", "2", "5", ",", "D", "e", "p", "o", "s", "i", "t", ",", ",", "Y", ",", "A", "C", "M", "E", ",", ",", "C", "h", "e", "c", "k", "i", "n", "g", ",", "I", "n", "c", "o", "m", "e", ":", "S", "a", "l", "e", "s", ",">>) \o <<QUOTE>> \o Str(<<"1", ",", "2", "0", "0", ".", "5", "0">>) \o <<QUOTE>> \o <<NEWLINE>> \o Str(<<"0", "1", "/", "0", "6", "/", "2", "0", "2", "5", ",", "E", "x", "p", "e", "n", "s", "e", ",", ",", "Y", ",", "S", "h", "e", "l", "l", ",", "g", "a", "s", ",", "C", "h", "e", "c", "k", "i", "n", "g", ",", "A", "u", "t", "o", ":", "F", "u", "e", "l", ",", "-", "3", "0", ".", "0", "0">>) \o <<NEWLINE>>)

Files == BankFiles \cup {ChaseCardFile, QuickBooksFile, ChaseCardFile \o JoinLines(<< BankHeader >>)}

IngestStartDays == {DaysFromCivil(2025, 3, 4), DaysFromCivil(2099, 12, 31)}
StartingBalances == {0, 50000}

InitIngest ==
    /\ today \in IngestStartDays
    /\ tick = MsPerDay - 1
    /\ nthCall = None
    /\ schedCall = None
    /\ billsBeforePayday = <<>>
    /\ currentBalance = 0
    /\ nextCommission = None
    /\ projection = None
    /\ rawData \in Files
    /\ settings \in [startingBalance : StartingBalances]
    /\ zoneWest \in BOOLEAN
    /\ processed = <<>>
    /\ callArgs = None
    /\ callResult = None
    /\ transactionOverrides = <<>>
    /\ paydayInfo = None
    /\ storedBills = <<>>
    /\ dismissedSuggestions = {}
    /\ ignoredVendors = {}
    /\ lastRemoved = None

\* A millisecond passes; the last millisecond of a day is followed by the
\* first of the next day.  Every behaviour starts on the last millisecond of its
\* first day, so the ticks made are 0 on that day and tick + 1 after it.
ClockTick ==
    /\ today \in IngestStartDays \/ tick + 1 < MaxTicks
    /\ IF tick + 1 = MsPerDay
       THEN today' = today + 1 /\ tick' = 0
       ELSE today' = today /\ tick' = tick + 1
    /\ UNCHANGED <<schedVars, projVars, ingestVars, callVars, overrideVars, paydayVars, billVars>>

\* The list of results with one more, the two latest kept.
Remember(results, result) ==
    IF Len(results) < 2 THEN Append(results, result) ELSE << results[2], result >>

\* Index computes its transactions from the stored file (on mount, after an
\* upload): parseCSV, then processTransactions.
ProcessStored ==
    /\ processed' = Remember(processed,
           [by  |-> "processTransactions",
            at  |-> today,
            out |-> processTransactions(parseCSV(rawData), settings.startingBalance,
                                       today, zoneWest)])
    /\ UNCHANGED <<clockVars, schedVars, projVars, rawData, settings, zoneWest, callVars, overrideVars, paydayVars, billVars>>

\* The same with processTransactions of src/utils/financeUtils.ts.
ProcessStored_V1 ==
    /\ processed' = Remember(processed,
           [by  |-> "processTransactions_V1",
            at  |-> today,
            out |-> processTransactions_V1(parseCSV_V1(rawData), settings.startingBalance,
                                               today, tick, zoneWest)])
    /\ UNCHANGED <<clockVars, schedVars, projVars, rawData, settings, zoneWest, callVars, overrideVars, paydayVars, billVars>>

NextIngest ==
    \/ ClockTick
    \/ ProcessStored
    \/ ProcessStored_V1

SpecIngest == InitIngest /\ [][NextIngest]_vars

(***************************************************************************)
(* useFinanceCalculations: the resolution of bills from the transactions.   *)
(* A field that may be undefined is a sequence, empty when it is.           *)
(***************************************************************************)

\* The least member of a set of numbers that is not empty.
Least(S) == CHOOSE i \in S : \A j \in S : i <= j

\* The length of the match of the words from the k-th on, with \s+ between
\* them, at position i of a text in upper case, or 0.
RECURSIVE LabelWordsLen(_, _, _, _)
LabelWordsLen(upper, i, words, k) ==
    LET rest(next) ==
            IF next = 0 THEN 0 ELSE LabelWordsLen(upper, next, words, k + 1)
        joined(spaces, more) ==
            IF more = 0 THEN 0 ELSE Len(words[k]) + spaces + more
        follow(spaces) ==
            joined(spaces, rest(IF spaces = 0 THEN 0 ELSE i + Len(words[k]) + spaces))
    IN  IF ~OccursAt(upper, words[k], i) THEN 0
        ELSE IF k = Len(words) THEN Len(words[k])
        ELSE follow(SpaceRun(upper, i + Len(words[k]), 1))

\* /WORD\s+WORD\s*:/i at position i: the words, then the colon.
LabelLen(upper, i, words) ==
    LET colon(n, spaces) ==
            IF n > 0 /\ At(upper, i + n + spaces) = 58 THEN n + spaces + 1 ELSE 0
        after(n) == colon(n, SpaceRun(upper, i + n, 1))
    IN  after(LabelWordsLen(upper, i, words, 1))

\* /(LABEL|LABEL)\s*:/i at position i: the first alternative that matches.
AnyLabelLen(upper, i, labels) ==
    LET hits == {k \in 1..Len(labels) : LabelLen(upper, i, labels[k]) > 0}
    IN  IF hits = {} THEN 0 ELSE LabelLen(upper, i, labels[Least(hits)])

\* /\s+(LABEL|LABEL)\s*:/i at position i.
EndLabelLen(upper, i, labels) ==
    LET label(spaces, n) == IF n = 0 THEN 0 ELSE spaces + n
        after(spaces) ==
            IF spaces = 0 THEN 0 ELSE label(spaces, AnyLabelLen(upper, i + spaces, labels))
    IN  after(SpaceRun(upper, i, 1))

\* RegExp.exec: the position of the leftmost match, or 0.
StartIndex(upper, words) ==
    LET hits == {i \in 1..Len(upper) : LabelLen(upper, i, words) > 0}
    IN  IF hits = {} THEN 0 ELSE Least(hits)

EndIndex(upper, labels) ==
    LET hits == {i \in 1..Len(upper) : EndLabelLen(upper, i, labels) > 0}
    IN  IF hits = {} THEN 0 ELSE Least(hits)

\* tryBetween: the candidates a pair of patterns adds, the trimmed text
\* between the first start label and the first end label after it.
tryBetween(text, start, end) ==
    LET candidate(picked) == IF picked # <<>> THEN << picked >> ELSE <<>>
        cut(afterStart, e) ==
            candidate(trim(IF e > 0 THEN SubSeq(afterStart, 1, e - 1) ELSE afterStart))
        between(afterStart) == cut(afterStart, EndIndex(toUpperCase(afterStart), end))
        from(upper, s) ==
            IF s = 0 THEN <<>>
            ELSE between(SubSeq(text, s + LabelLen(upper, s, start), Len(text)))
        search(upper) == from(upper, StartIndex(upper, start))
    IN  search(toUpperCase(text))

OrigCoName == << Str(<<"O", "R", "I", "G">>), Str(<<"C", "O">>), Str(<<"N", "A", "M", "E">>) >>
OriginatorName == << Str(<<"O", "R", "I", "G", "I", "N", "A", "T", "O", "R">>), Str(<<"N", "A", "M", "E">>) >>
CompanyName == << Str(<<"C", "O", "M", "P", "A", "N", "Y">>), Str(<<"N", "A", "M", "E">>) >>
OrigId == << Str(<<"O", "R", "I", "G">>), Str(<<"I", "D">>) >>
OriginatorId == << Str(<<"O", "R", "I", "G", "I", "N", "A", "T", "O", "R">>), Str(<<"I", "D">>) >>
CompanyId == << Str(<<"C", "O", "M", "P", "A", "N", "Y">>), Str(<<"I", "D">>) >>

\* The candidates of the three pairs of patterns, in their order.
AchCandidates(text) ==
    tryBetween(text, OrigCoName, << OrigId >>)
        \o tryBetween(text, OriginatorName, << OriginatorId, OrigId >>)
        \o tryBetween(text, CompanyName, << CompanyId, OrigId >>)

\* candidates.map(c => c.replace(/\s+/g, ' ').trim()).find(c => c.length >= 2),
\* then best || text.
BestOrText(text) ==
    LET best(found) == IF found # <<>> THEN found[1] ELSE text
    IN  best(SelectSeq([k \in 1..Len(AchCandidates(text)) |->
                           trim(ReplaceAll(AchCandidates(text)[k], SpacesLen, << 32 >>))],
                       LAMBDA c : Len(c) >= 2))

\* normalizeVendor of a text picked before the call; of the empty text it is
\* the empty text.
NormalizePicked(picked) == IF picked = <<>> THEN <<>> ELSE normalizeVendor(picked)

\* extractVendorName: the normalized company name of an ACH description when
\* one of its fields can be read, the normalized description otherwise.
extractVendorName(description) == NormalizePicked(BestOrText(trim(description)))

vendorKey(vendor) == toLowerCase(trim(normalizeVendor(vendor)))

isExpenseTx(tx) ==
    \/ tx.amount < 0
    \/ tx.amount > 0 /\ includes(toLowerCase(tx.type), Str(<<"d", "e", "b", "i", "t">>))

\* extractVendorName(tx.description) || tx.description
NameOrDescription(name, description) == IF name # <<>> THEN name ELSE description

\* vendorKey of a name computed before the call; of the empty name it is the
\* empty key.
KeyOfName(name) == IF name = <<>> THEN <<>> ELSE vendorKey(name)

\* The key of a transaction in the lookup by vendor.
ExpenseKey(tx) ==
    KeyOfName(NameOrDescription(extractVendorName(tx.description), tx.description))

\* The expenses of the month of now, each with its vendor key.  new Date(tx.date)
\* is the midnight of the date in UTC, compared with the first and the last
\* local day of the month.
currentMonthExpenses(transactions, now, west) ==
    LET monthStart == MkDate(getFullYear(now), getMonth(now), 1)
        monthEnd   == MkDate(getFullYear(now), getMonth(now) + 1, 0)
        inMonth(txDate) == txDate >= monthStart /\ txDate <= monthEnd
        current == SelectSeq(transactions,
                       LAMBDA tx : inMonth(LocalDayOfISO(tx.date, west)) /\ isExpenseTx(tx))
    IN  [k \in 1..Len(current) |-> [tx |-> current[k], key |-> ExpenseKey(current[k])]]

\* The best match of a bill among the expenses: the position of the first
\* one with the bill's key whose amount is nearer to the bill's than that
\* of every one before it and as near as any after it; 0 without one.
NearestOfKey(billKey, bill, expenses) ==
    LET matchingTxs == {k \in 1..Len(expenses) : expenses[k].key = billKey}
        diff(k) == Abs(Abs(expenses[k].tx.amount) - bill.amount)
        best == {k \in matchingTxs : \A j \in matchingTxs : diff(k) <= diff(j)}
    IN  IF matchingTxs = {} THEN 0 ELSE Least(best)

\* vendorTxMap.get(vendorKey(bill.vendor)), then the nearest in amount.
BestMatch(bill, expenses) == NearestOfKey(vendorKey(bill.vendor), bill, expenses)

\* The entry of the status map for a bill whose best match is at position
\* bestMatch.
BillResolutionStatus(bill, expenses, bestMatch) ==
    [billId                    |-> bill.id,
     isResolved                |-> bestMatch # 0,
     matchingTransactionId     |-> IF bestMatch # 0 THEN << expenses[bestMatch].tx.id >> ELSE <<>>,
     matchingTransactionDate   |-> IF bestMatch # 0 THEN << expenses[bestMatch].tx.date >> ELSE <<>>,
     matchingTransactionAmount |-> IF bestMatch # 0 THEN << Abs(expenses[bestMatch].tx.amount) >> ELSE <<>>]

\* Variant: a transaction matched to a bill is not offered to the bills after it.
StillOffered_Consumed(expenses, bestMatch) ==
    SelectSeq([k \in 1..Len(expenses) |-> IF k = bestMatch THEN None ELSE expenses[k]],
              LAMBDA e : e # None)

\* The expenses offered to the next bill: the lookup is only read.
StillOffered(expenses, bestMatch) == expenses

\* bills.forEach: the status map after the bills from the i-th on.
RECURSIVE ResolveLoop(_, _, _, _)
ResolveLoop(bills, i, expenses, statusMap) ==
    LET set(bill, bestMatch) ==
            ResolveLoop(bills, i + 1, StillOffered(expenses, bestMatch),
                        (bill.id :> BillResolutionStatus(bill, expenses, bestMatch)) @@ statusMap)
    IN  IF i > Len(bills) THEN statusMap
        ELSE IF ~bills[i].active THEN ResolveLoop(bills, i + 1, expenses, statusMap)
        ELSE set(bills[i], BestMatch(bills[i], expenses))

resolveBillsFromTransactions(bills, transactions, now, west) ==
    ResolveLoop(bills, 1, currentMonthExpenses(transactions, now, west), [id \in {} |-> None])

(***************************************************************************)
(* useFinanceCalculations: the bills due before the next payday.  Dates are *)
(* days; paydayCutoffEnd is the last millisecond of its day.                *)
(***************************************************************************)

\* new Date(year, month + 1, 0).getDate() for the month of a date.
LastDayOfMonthOf(date) == getDate(MkDate(getFullYear(date), getMonth(date) + 1, 0))

\* The date made from a year, a month and the due day, then set to the last
\* day of the month the date made lies in when the due day is greater.
DueDateIn(year, month, dueDay) ==
    LET clamp(expectedDate, lastDayOfMonth) ==
            IF dueDay > lastDayOfMonth
            THEN MkDate(getFullYear(expectedDate), getMonth(expectedDate), lastDayOfMonth)
            ELSE expectedDate
        handle(expectedDate) == clamp(expectedDate, LastDayOfMonthOf(expectedDate))
    IN  handle(MkDate(year, month, dueDay))

\* The expected date of a bill: that of this month, or that of the next
\* month when this month's has passed and the bill is not a one-time bill.
ExpectedDate(bill, todayStart) ==
    LET next(expectedDate) ==
            IF expectedDate < todayStart /\ bill.type # Str(<<"o", "n", "e", "-", "t", "i", "m", "e">>)
            THEN DueDateIn(getFullYear(todayStart), getMonth(todayStart) + 1, bill.dueDay)
            ELSE expectedDate
    IN  next(DueDateIn(getFullYear(todayStart), getMonth(todayStart), bill.dueDay))

\* activeBills.forEach: the bills from the i-th on that are active and
\* expected from today to the payday, with their status.
RECURSIVE BillsInRange(_, _, _, _, _)
BillsInRange(bills, i, resolutionMap, todayStart, paydayCutoffEnd) ==
    LET withStatus(bill, expectedDate) ==
            IF expectedDate >= todayStart /\ expectedDate <= paydayCutoffEnd
            THEN << [bill         |-> bill,
                     expectedDate |-> expectedDate,
                     isResolved   |-> resolutionMap[bill.id].isResolved,
                     matchInfo    |-> resolutionMap[bill.id]] >>
            ELSE <<>>
        entry(bill) ==
            IF bill.active THEN withStatus(bill, ExpectedDate(bill, todayStart)) ELSE <<>>
    IN  IF i > Len(bills) THEN <<>>
        ELSE entry(bills[i])
             \o BillsInRange(bills, i + 1, resolutionMap, todayStart, paydayCutoffEnd)

\* useBillsBeforePayday: the list above sorted by expected date; empty
\* without a payday.
useBillsBeforePayday(bills, transactions, paydayCutoffEnd, now, west) ==
    IF paydayCutoffEnd = None THEN <<>>
    ELSE StableSort(BillsInRange(bills, 1,
                                 resolveBillsFromTransactions(bills, transactions, now, west),
                                 now, paydayCutoffEnd.day),
                    LAMBDA a, b : a.expectedDate - b.expectedDate)

(***************************************************************************)
(* The next commission: Index and useCommissionManager.                     *)
(***************************************************************************)

\* Variant: a commission expected today is no longer upcoming.
IsUpcoming_AfterToday(expDate, todayStart) == expDate > todayStart

\* parseLocalDate(c.expectedDate) >= todayStart
IsUpcoming(expDate, todayStart) == expDate >= todayStart

\* The sort of commissions by expected date.
ByExpectedDate(commissions) ==
    StableSort(commissions,
               LAMBDA a, b : parseLocalDate(a.expectedDate) - parseLocalDate(b.expectedDate))

\* Index: the first of the pending commissions expected today or later,
\* sorted by expected date, or null.
IndexNextCommission(pendingCommissions, now) ==
    LET first(sorted) == IF sorted # <<>> THEN sorted[1] ELSE None
    IN  first(ByExpectedDate(SelectSeq(pendingCommissions,
                LAMBDA c : IsUpcoming(parseLocalDate(c.expectedDate), startOfDay(now)))))

\* useCommissionStatus: the commissions expected before today are expired,
\* the others upcoming and sorted by expected date.
useCommissionStatus(commissions, now) ==
    LET status(upcoming, expired) ==
            [upcoming       |-> upcoming,
             expired        |-> expired,
             nextCommission |-> IF upcoming # <<>> THEN upcoming[1] ELSE None,
             hasExpired     |-> Len(expired) > 0]
    IN  status(ByExpectedDate(SelectSeq(commissions,
                   LAMBDA c : ~(parseLocalDate(c.expectedDate) < startOfDay(now)))),
               SelectSeq(commissions,
                   LAMBDA c : parseLocalDate(c.expectedDate) < startOfDay(now)))

(***************************************************************************)
(* useFinanceCalculations: the next payday.                                 *)
(***************************************************************************)

\* The choice between the commission's date and the scheduled payment;
\* commissionDate is << >> when it is null.
ChosenPayday(commissionDate, todayStart, scheduledPayment) ==
    IF commissionDate = <<>>
    THEN [paydayDate |-> scheduledPayment.paymentDate, isFromCommission |-> FALSE,
          periodLabel |-> scheduledPayment.periodLabel]
    ELSE IF startOfDay(commissionDate[1]) = todayStart
    THEN [paydayDate |-> scheduledPayment.paymentDate, isFromCommission |-> FALSE,
          periodLabel |-> scheduledPayment.periodLabel]
    ELSE IF startOfDay(commissionDate[1]) > todayStart
    THEN [paydayDate |-> commissionDate[1], isFromCommission |-> TRUE,
          periodLabel |-> <<"Expected Commission">>]
    ELSE [paydayDate |-> scheduledPayment.paymentDate, isFromCommission |-> FALSE,
          periodLabel |-> scheduledPayment.periodLabel]

\* The function inside useMemo: the PaydayInfo computed at the time now.
\* paydayCutoffEnd is the last millisecond of the day it names.
ComputePayday(commission, now) ==
    LET info(chosen) ==
            [paydayDate       |-> chosen.paydayDate,
             paydayDateString |-> formatDateString(chosen.paydayDate),
             paydayCutoffEnd  |-> [day |-> chosen.paydayDate],
             isFromCommission |-> chosen.isFromCommission,
             periodLabel      |-> chosen.periodLabel]
    IN  info(ChosenPayday(IF commission # None
                          THEN << parseLocalDate(commission.expectedDate) >> ELSE <<>>,
                          startOfDay(now), getNextScheduledPaymentDate(now)))

\* Variant: the memo is computed again at every render.
useNextPayday_EveryRender(memo, commission, now) ==
    [dep |-> commission, computedOn |-> now, out |-> ComputePayday(commission, now)]

\* useNextPayday: useMemo(..., [nextCommission]) computes the PaydayInfo again
\* only when nextCommission is not the one of the render before.
useNextPayday(memo, commission, now) ==
    IF memo # None /\ memo.dep = commission
    THEN [dep |-> memo.dep, computedOn |-> memo.computedOn, out |-> memo.out]
    ELSE [dep |-> commission, computedOn |-> now, out |-> ComputePayday(commission, now)]

(***************************************************************************)
(* detectRecurring called on its own.                                       *)
(***************************************************************************)

MaxTxs == 4

\* `${year}-${month}-${day}` of a day, as parseDate writes it.
ISODate(day) ==
    NatToStr(getFullYear(day)) \o << 45 >> \o padStart2(NatToStr(getMonth(day) + 1))
        \o << 45 >> \o padStart2(NatToStr(getDate(day)))

\* The gaps in days between successive transactions of a list.
Gaps == {3, 9, 29, 30, 31, 45}

\* Expenses of one vendor: a subscription charge, and a charge far from it.
ExpenseAmounts == {-1599, -9000}

RecurringFirstDay == DaysFromCivil(2025, 1, 3)

\* The transactions with the given amounts, the first on RecurringFirstDay
\* and each later one gaps[i] days after the one before.
RECURSIVE GapTransactions(_, _, _, _)
GapTransactions(amounts, gaps, i, day) ==
    IF i > Len(amounts) THEN <<>>
    ELSE << [id          |-> Str(<<"t", "x">>) \o NatToStr(i),
             date        |-> ISODate(day),
             description |-> Str(<<"N", "E", "T", "F", "L", "I", "X", ".", "C", "O", "M">>),
             amount      |-> amounts[i]] >>
         \o GapTransactions(amounts, gaps, i + 1,
                            IF i <= Len(gaps) THEN day + gaps[i] ELSE day)

RecurringInputs ==
    UNION { { GapTransactions(amounts, gaps, 1, RecurringFirstDay) :
                amounts \in [1..n -> ExpenseAmounts], gaps \in [1..(n - 1) -> Gaps] } :
            n \in 1..MaxTxs }

InitRecurring ==
    /\ today = RecurringFirstDay
    /\ tick = 0
    /\ nthCall = None
    /\ schedCall = None
    /\ billsBeforePayday = <<>>
    /\ currentBalance = 0
    /\ nextCommission = None
    /\ projection = None
    /\ rawData = <<>>
    /\ settings = [startingBalance |-> 0]
    /\ zoneWest = FALSE
    /\ processed = <<>>
    /\ callArgs \in RecurringInputs
    /\ callResult = None
    /\ transactionOverrides = <<>>
    /\ paydayInfo = None
    /\ storedBills = <<>>
    /\ dismissedSuggestions = {}
    /\ ignoredVendors = {}
    /\ lastRemoved = None

CallDetectRecurring ==
    /\ callResult' = [returned |-> detectRecurring(callArgs)]
    /\ UNCHANGED <<clockVars, schedVars, projVars, ingestVars, callArgs, overrideVars, paydayVars, billVars>>

NextRecurring == CallDetectRecurring

SpecRecurring == InitRecurring /\ [][NextRecurring]_vars

(***************************************************************************)
(* resolveBillsFromTransactions called on its own.                          *)
(***************************************************************************)

MaxResolveTxs == 2
MaxResolveBills == 2

ResolveToday == DaysFromCivil(2025, 3, 15)

\* Transactions of the list Index holds: charges of one vendor on the first
\* day of the month, within it, the day before it and the day after it, a
\* card debit entered as a positive amount, an ACH debit and a deposit.
TxPool ==
    { [id |-> Str(<<"t", "x", "_", "a">>), date |-> Str(<<"2", "0", "2", "5", "-", "0", "3", "-", "0", "1">>), description |-> Str(<<"N", "E", "T", "F", "L", "I", "X", ".", "C", "O", "M">>),
       amount |-> -1599, type |-> Str(<<"A", "C", "H", "_", "D", "E", "B", "I", "T">>)],
      [id |-> Str(<<"t", "x", "_", "b">>), date |-> Str(<<"2", "0", "2", "5", "-", "0", "3", "-", "1", "4">>), description |-> Str(<<"N", "E", "T", "F", "L", "I", "X", ".", "C", "O", "M">>),
       amount |-> -1799, type |-> Str(<<"A", "C", "H", "_", "D", "E", "B", "I", "T">>)],
      [id |-> Str(<<"t", "x", "_", "c">>), date |-> Str(<<"2", "0", "2", "5", "-", "0", "3", "-", "2", "0">>), description |-> Str(<<"N", "e", "t", "f", "l", "i", "x", ".", "c", "o", "m">>),
       amount |-> 1599, type |-> Str(<<"D", "E", "B", "I", "T", "_", "C", "A", "R", "D">>)],
      [id |-> Str(<<"t", "x", "_", "d">>), date |-> Str(<<"2", "0", "2", "5", "-", "0", "2", "-", "2", "8">>), description |-> Str(<<"N", "E", "T", "F", "L", "I", "X", ".", "C", "O", "M">>),
       amount |-> -1699, type |-> Str(<<"A", "C", "H", "_", "D", "E", "B", "I", "T">>)],
      [id |-> Str(<<"t", "x", "_", "e">>), date |-> Str(<<"2", "0", "2", "5", "-", "0", "4", "-", "0", "1">>), description |-> Str(<<"N", "E", "T", "F", "L", "I", "X", ".", "C", "O", "M">>),
       amount |-> -1699, type |-> Str(<<"A", "C", "H", "_", "D", "E", "B", "I", "T">>)],
      [id |-> Str(<<"t", "x", "_", "f">>), date |-> Str(<<"2", "0", "2", "5", "-", "0", "3", "-", "1", "0">>),
       description |-> Str(<<"O", "R", "I", "G", " ", "C", "O", " ", "N", "A", "M", "E", ":", "S", "a", "n", "a", " ", "O", "R", "I", "G", " ", "I", "D", ":", "7", "7">>),
       amount |-> -30000, type |-> Str(<<"A", "C", "H", "_", "D", "E", "B", "I", "T">>)],
      [id |-> Str(<<"t", "x", "_", "g">>), date |-> Str(<<"2", "0", "2", "5", "-", "0", "3", "-", "0", "7">>), description |-> Str(<<"N", "E", "T", "F", "L", "I", "X", ".", "C", "O", "M">>),
       amount |-> 1699, type |-> Str(<<"A", "C", "H", "_", "C", "R", "E", "D", "I", "T">>)] }

\* Bills the user has entered.
BillPool ==
    { [id |-> Str(<<"b", "i", "l", "l", "_", "1">>), vendor |-> Str(<<"N", "e", "t", "f", "l", "i", "x", ".", "c", "o", "m">>), amount |-> 1699, active |-> TRUE],
      [id |-> Str(<<"b", "i", "l", "l", "_", "2">>), vendor |-> Str(<<"n", "e", "t", "f", "l", "i", "x", ".", "c", "o", "m">>), amount |-> 1599, active |-> TRUE],
      [id |-> Str(<<"b", "i", "l", "l", "_", "3">>), vendor |-> Str(<<"S", "a", "n", "a">>), amount |-> 30000, active |-> TRUE],
      [id |-> Str(<<"b", "i", "l", "l", "_", "4">>), vendor |-> Str(<<"N", "e", "t", "f", "l", "i", "x", ".", "c", "o", "m">>), amount |-> 1699, active |-> FALSE] }

\* The lists of at most n different members of a pool.
ListsOf(pool, n) ==
    UNION { {list \in [1..k -> pool] : \A i, j \in 1..k : list[i] = list[j] => i = j} :
            k \in 0..n }

InitResolve ==
    /\ today = ResolveToday
    /\ tick = 0
    /\ nthCall = None
    /\ schedCall = None
    /\ billsBeforePayday = <<>>
    /\ currentBalance = 0
    /\ nextCommission = None
    /\ projection = None
    /\ rawData = <<>>
    /\ settings = [startingBalance |-> 0]
    /\ zoneWest \in BOOLEAN
    /\ processed = <<>>
    /\ callArgs \in [bills : ListsOf(BillPool, MaxResolveBills),
                     transactions : ListsOf(TxPool, MaxResolveTxs)]
    /\ callResult = None
    /\ transactionOverrides = <<>>
    /\ paydayInfo = None
    /\ storedBills = <<>>
    /\ dismissedSuggestions = {}
    /\ ignoredVendors = {}
    /\ lastRemoved = None

CallResolveBills ==
    /\ callResult = None
    /\ callResult' = [returned |-> resolveBillsFromTransactions(callArgs.bills,
                                       callArgs.transactions, today, zoneWest)]
    /\ UNCHANGED <<clockVars, schedVars, projVars, ingestVars, callArgs, overrideVars, paydayVars, billVars>>

NextResolve == CallResolveBills

SpecResolve == InitResolve /\ [][NextResolve]_vars

(***************************************************************************)
(* parseCSV called on its own.                                              *)
(***************************************************************************)

MaxParseRows == 2

ChaseCardHeader == Str(<<"T", "r", "a", "n", "s", "a", "c", "t", "i", "o", "n", " ", "D", "a", "t", "e", ",", "P", "o", "s", "t", " ", "D", "a", "t", "e", ",", "D", "e", "s", "c", "r", "i", "p", "t", "i", "o", "n", ",", "C", "a", "t", "e", "g", "o", "r", "y", ",", "T", "y", "p", "e", ",", "A", "m", "o", "u", "n", "t", ",", "M", "e", "m", "o">>)
QuickBooksHeader ==
    Str(<<"D", "a", "t", "e", ",", "T", "r", "a", "n", "s", "a", "c", "t", "i", "o", "n", " ", "t", "y", "p", "e", ",", "N", "u", "m", ",", "P", "o", "s", "t", "i", "n", "g", ",", "N", "a", "m", "e", ",", "M", "e", "m", "o", "/", "D", "e", "s", "c", "r", "i", "p", "t", "i", "o", "n", ",", "A", "c", "c", "o", "u", "n", "t", " ", "n", "a", "m", "e", ",", "A", "c", "c", "o", "u", "n", "t", " ", "f", "u", "l", "l", " ", "n", "a", "m", "e", ",", "A", "m", "o", "u", "n", "t">>)

\* Data rows of a bank export, each with what it lacks: a row as the bank
\* writes it, one with the amount 0, one whose amount is not a number, one
\* without a posting date and one of four fields.
BankLines ==
    { [kind |-> "good",       line |-> Str(<<"D", "E", "B", "I", "T", ",", "0", "1", "/", "0", "5", "/", "2", "0", "2", "5", ",", "N", "E", "T", "F", "L", "I", "X", ".", "C", "O", "M", ",", "-", "1", "5", ".", "9", "9", ",", "A", "C", "H", "_", "D", "E", "B", "I", "T", ",", "1", "0", "0", "0", ".", "0", "0", ",", ",">>)],
      [kind |-> "zero",       line |-> Str(<<"D", "E", "B", "I", "T", ",", "0", "1", "/", "0", "6", "/", "2", "0", "2", "5", ",", "H", "O", "L", "D", ",", "0", ".", "0", "0", ",", "A", "C", "H", "_", "D", "E", "B", "I", "T", ",", "1", "0", "0", "0", ".", "0", "0", ",", ",">>)],
      [kind |-> "nonnumeric", line |-> Str(<<"D", "E", "B", "I", "T", ",", "0", "1", "/", "0", "7", "/", "2", "0", "2", "5", ",", "F", "E", "E", ",", "n", "/", "a", ",", "A", "C", "H", "_", "D", "E", "B", "I", "T", ",", "1", "0", "0", "0", ".", "0", "0", ",", ",">>)],
      [kind |-> "nodate",     line |-> Str(<<"D", "E", "B", "I", "T", ",", ",", "F", "E", "E", ",", "-", "2", ".", "0", "0", ",", "A", "C", "H", "_", "D", "E", "B", "I", "T", ",", "1", "0", "0", "0", ".", "0", "0", ",", ",">>)],
      [kind |-> "short",      line |-> Str(<<"D", "E", "B", "I", "T", ",", "0", "1", "/", "0", "8", "/", "2", "0", "2", "5", ",", "F", "E", "E", ",", "-", "2", ".", "0", "0">>)] }

ChaseCardLines ==
    { [kind |-> "good",   line |-> Str(<<"0", "1", "/", "0", "3", "/", "2", "0", "2", "5", ",", "0", "1", "/", "0", "5", "/", "2", "0", "2", "5", ",", "S", "H", "E", "L", "L", " ", "O", "I", "L", ",", "G", "a", "s", ",", "S", "a", "l", "e", ",", "-", "4", "5", ".", "1", "0", ",">>)],
      [kind |-> "zero",   line |-> Str(<<"0", "1", "/", "0", "3", "/", "2", "0", "2", "5", ",", "0", "1", "/", "0", "6", "/", "2", "0", "2", "5", ",", "S", "H", "E", "L", "L", " ", "O", "I", "L", ",", "G", "a", "s", ",", "S", "a", "l", "e", ",", "0", ".", "0", "0", ",">>)],
      [kind |-> "nodate", line |-> Str(<<"0", "1", "/", "0", "3", "/", "2", "0", "2", "5", ",", ",", "S", "H", "E", "L", "L", " ", "O", "I", "L", ",", "G", "a", "s", ",", "S", "a", "l", "e", ",", "-", "4", "5", ".", "1", "0", ",">>)],
      [kind |-> "short",  line |-> Str(<<"0", "1", "/", "0", "3", "/", "2", "0", "2", "5", ",", "0", "1", "/", "0", "5", "/", "2", "0", "2", "5", ",", "S", "H", "E", "L", "L", " ", "O", "I", "L">>)] }

QuickBooksLines ==
    { [kind |-> "good",       line |-> Str(<<"0", "1", "/", "0", "6", "/", "2", "0", "2", "5", ",", "E", "x", "p", "e", "n", "s", "e", ",", ",", "Y", ",", "S", "h", "e", "l", "l", ",", "g", "a", "s", ",", "C", "h", "e", "c", "k", "i", "n", "g", ",", "A", "u", "t", "o", ":", "F", "u", "e", "l", ",", "-", "3", "0", ".", "0", "0">>)],
      [kind |-> "zero",       line |-> Str(<<"0", "1", "/", "0", "7", "/", "2", "0", "2", "5", ",", "E", "x", "p", "e", "n", "s", "e", ",", ",", "Y", ",", "S", "h", "e", "l", "l", ",", "g", "a", "s", ",", "C", "h", "e", "c", "k", "i", "n", "g", ",", "A", "u", "t", "o", ":", "F", "u", "e", "l", ",", "0", ".", "0", "0">>)],
      [kind |-> "nonnumeric", line |-> Str(<<"0", "1", "/", "0", "8", "/", "2", "0", "2", "5", ",", "E", "x", "p", "e", "n", "s", "e", ",", ",", "Y", ",", "S", "h", "e", "l", "l", ",", "g", "a", "s", ",", "C", "h", "e", "c", "k", "i", "n", "g", ",", "A", "u", "t", "o", ":", "F", "u", "e", "l", ",", "n", "/", "a">>)],
      [kind |-> "nodate",     line |-> Str(<<",", "E", "x", "p", "e", "n", "s", "e", ",", ",", "Y", ",", "S", "h", "e", "l", "l", ",", "g", "a", "s", ",", "C", "h", "e", "c", "k", "i", "n", "g", ",", "A", "u", "t", "o", ":", "F", "u", "e", "l", ",", "-", "3", "0", ".", "0", "0">>)],
      [kind |-> "short",      line |-> Str(<<"0", "1", "/", "0", "9", "/", "2", "0", "2", "5", ",", "E", "x", "p", "e", "n", "s", "e", ",", ",", "Y", ",", "S", "h", "e", "l", "l">>)] }

\* A line that is no row of any export.
NoteLine == [kind |-> "note", line |-> Str(<<"A", "c", "c", "o", "u", "n", "t", " ", "a", "c", "t", "i", "v", "i", "t", "y">>)]

\* The rows a file with the given header line, or with none, is made of.
LinesUnder(header) ==
    IF header = BankHeader THEN BankLines
    ELSE IF header = ChaseCardHeader THEN ChaseCardLines
    ELSE IF header = QuickBooksHeader THEN QuickBooksLines
    ELSE BankLines \cup {NoteLine}

ParseInputs ==
    UNION { [header : {header}, rows : UNION {[1..n -> LinesUnder(header)] : n \in 0..MaxParseRows}] :
            header \in {<<>>, BankHeader, ChaseCardHeader, QuickBooksHeader} }

\* The content of the file: the header line, if any, and the rows, each line
\* ended by a line feed.
Content(file) ==
    JoinLines((IF file.header = <<>> THEN <<>> ELSE << file.header >>)
              \o [k \in 1..Len(file.rows) |-> file.rows[k].line])

InitParse ==
    /\ today = FirstDay
    /\ tick = 0
    /\ nthCall = None
    /\ schedCall = None
    /\ billsBeforePayday = <<>>
    /\ currentBalance = 0
    /\ nextCommission = None
    /\ projection = None
    /\ rawData = <<>>
    /\ settings = [startingBalance |-> 0]
    /\ zoneWest = FALSE
    /\ processed = <<>>
    /\ callArgs \in ParseInputs
    /\ callResult = None
    /\ transactionOverrides = <<>>
    /\ paydayInfo = None
    /\ storedBills = <<>>
    /\ dismissedSuggestions = {}
    /\ ignoredVendors = {}
    /\ lastRemoved = None

CallParseCSV ==
    /\ callResult = None
    /\ callResult' = [returned |-> parseCSV(Content(callArgs))]
    /\ UNCHANGED <<clockVars, schedVars, projVars, ingestVars, callArgs, overrideVars, paydayVars, billVars>>

NextParse == CallParseCSV

SpecParse == InitParse /\ [][NextParse]_vars

(***************************************************************************)
(* useBillsBeforePayday called on its own.                                  *)
(***************************************************************************)

MaxDueBills == 2

DueDays == {15, 28, 30, 31}
DaysToPayday == 40
DaysToNearPayday == 2

\* The days on which the hook runs: before, on and after the ends of months
\* of 31, 28 and 30 days.
DueTodays ==
    { DaysFromCivil(2025, 1, 30), DaysFromCivil(2025, 1, 31), DaysFromCivil(2025, 2, 10),
      DaysFromCivil(2025, 2, 28), DaysFromCivil(2025, 3, 31), DaysFromCivil(2025, 4, 15) }

DueBillPool ==
    { [id |-> Str(<<"b", "i", "l", "l", "_">>) \o NatToStr(dueDay) \o type, vendor |-> Str(<<"N", "e", "t", "f", "l", "i", "x", ".", "c", "o", "m">>),
       amount |-> 1599, active |-> TRUE, dueDay |-> dueDay, type |-> type] :
          dueDay \in DueDays, type \in {Str(<<"r", "e", "c", "u", "r", "r", "i", "n", "g">>), Str(<<"o", "n", "e", "-", "t", "i", "m", "e">>)} }
    \cup { [id |-> Str(<<"b", "i", "l", "l", "_", "o", "f", "f">>), vendor |-> Str(<<"N", "e", "t", "f", "l", "i", "x", ".", "c", "o", "m">>), amount |-> 1599,
            active |-> FALSE, dueDay |-> 31, type |-> Str(<<"r", "e", "c", "u", "r", "r", "i", "n", "g">>)] }

DueTransactions ==
    { <<>>,
      << [id |-> Str(<<"t", "x", "_", "a">>), date |-> Str(<<"2", "0", "2", "5", "-", "0", "2", "-", "0", "3">>), description |-> Str(<<"N", "E", "T", "F", "L", "I", "X", ".", "C", "O", "M">>),
          amount |-> -1599, type |-> Str(<<"A", "C", "H", "_", "D", "E", "B", "I", "T">>)] >> }

InitBillsDue ==
    /\ today \in DueTodays
    /\ tick = 0
    /\ nthCall = None
    /\ schedCall = None
    /\ billsBeforePayday = <<>>
    /\ currentBalance = 0
    /\ nextCommission = None
    /\ projection = None
    /\ rawData = <<>>
    /\ settings = [startingBalance |-> 0]
    /\ zoneWest = FALSE
    /\ processed = <<>>
    /\ callArgs \in [bills : ListsOf(DueBillPool, MaxDueBills),
                     transactions : DueTransactions,
                     paydayCutoffEnd : {None, [day |-> today + DaysToNearPayday],
                                        [day |-> today + DaysToPayday]}]
    /\ callResult = None
    /\ transactionOverrides = <<>>
    /\ paydayInfo = None
    /\ storedBills = <<>>
    /\ dismissedSuggestions = {}
    /\ ignoredVendors = {}
    /\ lastRemoved = None

CallBillsBeforePayday ==
    /\ callResult = None
    /\ callResult' = [returned |-> useBillsBeforePayday(callArgs.bills, callArgs.transactions,
                                       callArgs.paydayCutoffEnd, today, zoneWest)]
    /\ UNCHANGED <<clockVars, schedVars, projVars, ingestVars, callArgs, overrideVars, paydayVars, billVars>>

NextBillsDue == CallBillsBeforePayday

SpecBillsDue == InitBillsDue /\ [][NextBillsDue]_vars

(***************************************************************************)
(* Index: the overrides of category and isRecurring the user makes, kept    *)
(* by transaction id beside the stored file.  An override is a record of    *)
(* both fields, each a sequence that is empty when the field is not set.    *)
(* The bills that handleUpdateTransaction adds or updates are not part of   *)
(* this state.                                                              *)
(***************************************************************************)

MaxOverrides == 1

\* The files the user has uploaded: a bank export of one or two rows.
OverrideFiles ==
    { JoinLines(<< BankHeader >> \o rows) : rows \in [1..1 -> BankRowPool] }

\* What the user can set on a transaction.
OverrideUpdates ==
    { [category |-> << "Subscriptions" >>, isRecurring |-> <<>>],
      [category |-> <<>>, isRecurring |-> << TRUE >>] }

\* { ...prev, ...updates }
MergeOverride(prev, updates) ==
    [category    |-> IF updates.category # <<>> THEN updates.category ELSE prev.category,
     isRecurring |-> IF updates.isRecurring # <<>> THEN updates.isRecurring
                     ELSE prev.isRecurring]

\* transactions.map((tx) => ({ ...tx, ...transactionOverrides[tx.id] }))
transactionsWithOverrides(transactions, overrides) ==
    LET over(tx, o) ==
            [tx EXCEPT !.category    = IF o.category # <<>> THEN o.category[1] ELSE @,
                       !.isRecurring = IF o.isRecurring # <<>> THEN o.isRecurring[1] ELSE @]
    IN  [i \in 1..Len(transactions) |->
            IF transactions[i].id \in DOMAIN overrides
            THEN over(transactions[i], overrides[transactions[i].id])
            ELSE transactions[i]]

InitOverrides ==
    /\ today \in IngestStartDays
    /\ tick = MsPerDay - 1
    /\ nthCall = None
    /\ schedCall = None
    /\ billsBeforePayday = <<>>
    /\ currentBalance = 0
    /\ nextCommission = None
    /\ projection = None
    /\ rawData \in OverrideFiles
    /\ settings \in [startingBalance : StartingBalances]
    /\ zoneWest = FALSE
    /\ processed = <<>>
    /\ callArgs = None
    /\ callResult = None
    /\ transactionOverrides = <<>>
    /\ paydayInfo = None
    /\ storedBills = <<>>
    /\ dismissedSuggestions = {}
    /\ ignoredVendors = {}
    /\ lastRemoved = None

\* The version of financeUtils the page runs: the one that computed the
\* list it shows.
Runs(version) ==
    IF processed = <<>> THEN TRUE ELSE processed[Len(processed)].by = version

\* The page is loaded, or loaded again: the list is computed from the stored
\* file.
Load == Runs("processTransactions") /\ ProcessStored

Load_V1 == Runs("processTransactions_V1") /\ ProcessStored_V1

\* The list computed from a content with the version the page runs.
Recomputed(content, startingBalance) ==
    IF processed[Len(processed)].by = "processTransactions"
    THEN [by  |-> "processTransactions",
          at  |-> today,
          out |-> processTransactions(parseCSV(content), startingBalance, today, zoneWest)]
    ELSE [by  |-> "processTransactions_V1",
          at  |-> today,
          out |-> processTransactions_V1(parseCSV_V1(content), startingBalance,
                                         today, tick, zoneWest)]

\* handleCSVUpload with the content already stored: the starting balance is
\* inferred from the oldest row, and the list is computed again when that
\* changes the balance (rawData itself has not changed).
HandleCSVUpload ==
    /\ processed # <<>>
    /\ LET inferred(parsed) ==
               IF Len(parsed) > 0
               THEN parsed[Len(parsed)].balance - parsed[Len(parsed)].amount
               ELSE settings.startingBalance
           upload(inferredStart) ==
               /\ settings' = [settings EXCEPT !.startingBalance = inferredStart]
               /\ processed' = IF inferredStart # settings.startingBalance
                               THEN Remember(processed, Recomputed(rawData, inferredStart))
                               ELSE processed
       IN  upload(inferred(IF processed[Len(processed)].by = "processTransactions"
                           THEN parseCSV(rawData) ELSE parseCSV_V1(rawData)))
    /\ UNCHANGED <<clockVars, schedVars, projVars, rawData, zoneWest, callVars, overrideVars, paydayVars, billVars>>

\* handleUpdateTransaction(id, updates) on a transaction of the list shown.
HandleUpdateTransaction ==
    /\ processed # <<>>
    /\ \E i \in 1..Len(processed[Len(processed)].out), updates \in OverrideUpdates :
          LET id == processed[Len(processed)].out[i].id
              prev == IF id \in DOMAIN transactionOverrides THEN transactionOverrides[id]
                      ELSE [category |-> <<>>, isRecurring |-> <<>>]
          IN  /\ Cardinality(DOMAIN transactionOverrides \cup {id}) <= MaxOverrides
              /\ transactionOverrides' =
                     [k \in DOMAIN transactionOverrides \cup {id} |->
                         IF k = id THEN MergeOverride(prev, updates)
                         ELSE transactionOverrides[k]]
    /\ UNCHANGED <<clockVars, schedVars, projVars, ingestVars, callVars, paydayVars, billVars>>

NextOverrides ==
    \/ ClockTick
    \/ Load
    \/ Load_V1
    \/ HandleCSVUpload
    \/ HandleUpdateTransaction

SpecOverrides == InitOverrides /\ [][NextOverrides]_vars

(***************************************************************************)
(* The next commission computed on its own.                                 *)
(***************************************************************************)

MaxCommissions == 2

\* Commissions expected yesterday, today, tomorrow and in a month.
PendingPool ==
    [id : {Str(<<"c", "o", "m", "m", "i", "s", "s", "i", "o", "n", "-", "1">>), Str(<<"c", "o", "m", "m", "i", "s", "s", "i", "o", "n", "-", "2">>)},
     amount : {20 * MoneyStep},
     expectedDate : {formatDateString(ProjFirstDay + k) : k \in {-1, 0, 1, 30}}]

InitCommissions ==
    /\ today = ProjFirstDay
    /\ tick = 0
    /\ nthCall = None
    /\ schedCall = None
    /\ billsBeforePayday = <<>>
    /\ currentBalance = 0
    /\ nextCommission = None
    /\ projection = None
    /\ rawData = <<>>
    /\ settings = [startingBalance |-> 0]
    /\ zoneWest = FALSE
    /\ processed = <<>>
    /\ callArgs \in ListsOf(PendingPool, MaxCommissions)
    /\ callResult = None
    /\ transactionOverrides = <<>>
    /\ paydayInfo = None
    /\ storedBills = <<>>
    /\ dismissedSuggestions = {}
    /\ ignoredVendors = {}
    /\ lastRemoved = None

\* Index renders.
RenderNextCommission ==
    /\ callResult = None
    /\ callResult' = [by |-> "Index",
                      nextCommission |-> IndexNextCommission(callArgs, today)]
    /\ UNCHANGED <<clockVars, schedVars, projVars, ingestVars, callArgs, overrideVars, paydayVars, billVars>>

CallCommissionStatus ==
    /\ callResult = None
    /\ callResult' = [by |-> "useCommissionStatus",
                      nextCommission |-> useCommissionStatus(callArgs, today).nextCommission,
                      status |-> useCommissionStatus(callArgs, today)]
    /\ UNCHANGED <<clockVars, schedVars, projVars, ingestVars, callArgs, overrideVars, paydayVars, billVars>>

NextCommissions ==
    \/ RenderNextCommission
    \/ CallCommissionStatus

SpecCommissions == InitCommissions /\ [][NextCommissions]_vars

(***************************************************************************)
(* determinePayPeriodImpact called on its own.                              *)
(***************************************************************************)

NumImpactDays == 75

ImpactFirstDay == DaysFromCivil(2025, 2, 1)

InitImpact ==
    /\ today = ImpactFirstDay
    /\ tick = 0
    /\ nthCall = None
    /\ schedCall = None
    /\ billsBeforePayday = <<>>
    /\ currentBalance = 0
    /\ nextCommission = None
    /\ projection = None
    /\ rawData = <<>>
    /\ settings = [startingBalance |-> 0]
    /\ zoneWest \in BOOLEAN
    /\ processed = <<>>
    /\ callArgs \in {ISODate(ImpactFirstDay + k) : k \in 0..(NumImpactDays - 1)}
    /\ callResult = None
    /\ transactionOverrides = <<>>
    /\ paydayInfo = None
    /\ storedBills = <<>>
    /\ dismissedSuggestions = {}
    /\ ignoredVendors = {}
    /\ lastRemoved = None

CallDeterminePayPeriodImpact ==
    /\ callResult = None
    /\ callResult' = [returned |-> determinePayPeriodImpact(callArgs, zoneWest)]
    /\ UNCHANGED <<clockVars, schedVars, projVars, ingestVars, callArgs, overrideVars, paydayVars, billVars>>

NextImpact == CallDeterminePayPeriodImpact

SpecImpact == InitImpact /\ [][NextImpact]_vars

(***************************************************************************)
(* The next payday over some days, with a commission that changes.          *)
(***************************************************************************)

\* The clock runs over NumPaydayDays days after PaydayFirstDay; the contract
\* pays on 2025-03-20.
NumPaydayDays == 3
PaydayFirstDay == DaysFromCivil(2025, 3, 18)

PaydayCommissions ==
    {None} \cup [amount : {20 * MoneyStep},
                 expectedDate : {formatDateString(d) :
                     d \in (PaydayFirstDay - 1)..(PaydayFirstDay + NumPaydayDays + 1)}]

InitPayday ==
    /\ today = PaydayFirstDay
    /\ tick = 0
    /\ nthCall = None
    /\ schedCall = None
    /\ billsBeforePayday = <<>>
    /\ currentBalance = 0
    /\ nextCommission \in PaydayCommissions
    /\ projection = None
    /\ rawData = <<>>
    /\ settings = [startingBalance |-> 0]
    /\ zoneWest = FALSE
    /\ processed = <<>>
    /\ callArgs = None
    /\ callResult = None
    /\ transactionOverrides = <<>>
    /\ paydayInfo = None
    /\ storedBills = <<>>
    /\ dismissedSuggestions = {}
    /\ ignoredVendors = {}
    /\ lastRemoved = None

\* The wall clock passes midnight while the page stays open.
Midnight ==
    /\ today < PaydayFirstDay + NumPaydayDays
    /\ today' = today + 1
    /\ tick' = 0
    /\ UNCHANGED <<schedVars, projVars, ingestVars, callVars, overrideVars, paydayVars, billVars>>

\* The parent passes another commission, or none.
ChangeNextCommission ==
    /\ \E c \in PaydayCommissions :
          /\ c # nextCommission
          /\ nextCommission' = c
    /\ UNCHANGED <<clockVars, schedVars, billsBeforePayday, currentBalance, projection,
                   ingestVars, callVars, overrideVars, paydayVars, billVars>>

\* A render of a component that calls useNextPayday(nextCommission).
RenderNextPayday ==
    /\ paydayInfo' = [renderedOn |-> today,
                      memo |-> useNextPayday(IF paydayInfo = None THEN None
                                             ELSE paydayInfo.memo,
                                             nextCommission, today)]
    /\ UNCHANGED <<clockVars, schedVars, projVars, ingestVars, callVars, overrideVars, billVars>>

NextPayday ==
    \/ Midnight
    \/ ChangeNextCommission
    \/ RenderNextPayday

SpecPayday == InitPayday /\ [][NextPayday]_vars

(***************************************************************************)
(* processTransactions applied to the rows of a file in two orders.         *)
(***************************************************************************)

MaxPermRows == 3

\* A charge, and the rows that differ from it in the case of the
\* description, in the amount, in the type and in the date.
PermRowPool ==
    { Str(<<"D", "E", "B", "I", "T", ",", "0", "1", "/", "0", "5", "/", "2", "0", "2", "5", ",", "N", "E", "T", "F", "L", "I", "X", ".", "C", "O", "M", ",", "-", "1", "5", ".", "9", "9", ",", "A", "C", "H", "_", "D", "E", "B", "I", "T", ",", "1", "0", "0", "0", ".", "0", "0", ",", ",">>),
      Str(<<"D", "E", "B", "I", "T", ",", "0", "1", "/", "0", "5", "/", "2", "0", "2", "5", ",", "n", "e", "t", "f", "l", "i", "x", ".", "c", "o", "m", ",", "-", "1", "5", ".", "9", "9", ",", "A", "C", "H", "_", "D", "E", "B", "I", "T", ",", "1", "0", "0", "0", ".", "0", "0", ",", ",">>),
      Str(<<"D", "E", "B", "I", "T", ",", "0", "1", "/", "0", "5", "/", "2", "0", "2", "5", ",", "N", "E", "T", "F", "L", "I", "X", ".", "C", "O", "M", ",", "-", "1", "7", ".", "9", "9", ",", "A", "C", "H", "_", "D", "E", "B", "I", "T", ",", "1", "0", "0", "0", ".", "0", "0", ",", ",">>),
      Str(<<"D", "E", "B", "I", "T", ",", "0", "1", "/", "0", "5", "/", "2", "0", "2", "5", ",", "N", "E", "T", "F", "L", "I", "X", ".", "C", "O", "M", ",", "-", "1", "5", ".", "9", "9", ",", "D", "E", "B", "I", "T", "_", "C", "A", "R", "D", ",", "1", "0", "0", "0", ".", "0", "0", ",", ",">>),
      Str(<<"D", "E", "B", "I", "T", ",", "0", "1", "/", "0", "6", "/", "2", "0", "2", "5", ",", "N", "E", "T", "F", "L", "I", "X", ".", "C", "O", "M", ",", "-", "1", "5", ".", "9", "9", ",", "A", "C", "H", "_", "D", "E", "B", "I", "T", ",", "1", "0", "0", "0", ".", "0", "0", ",", ",">>) }

\* The orders in which n rows can stand.
Orders(n) == {f \in [1..n -> 1..n] : \A i, j \in 1..n : f[i] = f[j] => i = j}

PermInputs ==
    UNION { {[rows |-> rows, order |-> order] :
                rows \in [1..n -> PermRowPool], order \in Orders(n)} :
            n \in 0..MaxPermRows }

\* The bank file of the rows in an order.
FileInOrder(rows, order) ==
    JoinLines(<< BankHeader >> \o [i \in 1..Len(rows) |-> rows[order[i]]])

InitPermute ==
    /\ today = DaysFromCivil(2025, 3, 4)
    /\ tick = 0
    /\ nthCall = None
    /\ schedCall = None
    /\ billsBeforePayday = <<>>
    /\ currentBalance = 0
    /\ nextCommission = None
    /\ projection = None
    /\ rawData = <<>>
    /\ settings = [startingBalance |-> 0]
    /\ zoneWest = FALSE
    /\ processed = <<>>
    /\ callArgs \in PermInputs
    /\ callResult = [given |-> <<>>, permuted |-> <<>>]
    /\ transactionOverrides = <<>>
    /\ paydayInfo = None
    /\ storedBills = <<>>
    /\ dismissedSuggestions = {}
    /\ ignoredVendors = {}
    /\ lastRemoved = None

\* The file with its rows as given is parsed and processed.
ProcessGiven ==
    /\ callResult.given = <<>>
    /\ callResult' = [callResult EXCEPT !.given =
           << processTransactions(
                  parseCSV(FileInOrder(callArgs.rows, [i \in 1..Len(callArgs.rows) |-> i])),
                  settings.startingBalance, today, zoneWest) >>]
    /\ UNCHANGED <<clockVars, schedVars, projVars, ingestVars, callArgs, overrideVars, paydayVars, billVars>>

\* The file with the same rows in the other order is parsed and processed.
ProcessPermuted ==
    /\ callResult.permuted = <<>>
    /\ callResult' = [callResult EXCEPT !.permuted =
           << processTransactions(parseCSV(FileInOrder(callArgs.rows, callArgs.order)),
                                  settings.startingBalance, today, zoneWest) >>]
    /\ UNCHANGED <<clockVars, schedVars, projVars, ingestVars, callArgs, overrideVars, paydayVars, billVars>>

NextPermute ==
    \/ ProcessGiven
    \/ ProcessPermuted

SpecPermute == InitPermute /\ [][NextPermute]_vars

(***************************************************************************)
(* Index: the transactions and the current balance after an upload or a     *)
(* change of the starting balance.                                           *)
(***************************************************************************)

\* The transactions memo of Index: none without a stored file.
IndexTransactions(raw, startingBalance, now, west) ==
    IF raw = <<>> THEN <<>>
    ELSE processTransactions(parseCSV(raw), startingBalance, now, west)

\* transactions[0]?.runningBalance || settings.startingBalance: a running
\* balance of 0 is falsy, as is the missing one of an empty list.
IndexCurrentBalance(transactions, startingBalance) ==
    IF transactions # <<>> /\ transactions[1].runningBalance # 0
    THEN transactions[1].runningBalance
    ELSE startingBalance

MaxBalanceRows == 2

\* Rows of a bank export with the balance the bank reports after each.
BalanceRowPool ==
    { Str(<<"D", "E", "B", "I", "T", ",", "0", "1", "/", "0", "5", "/", "2", "0", "2", "5", ",", "N", "E", "T", "F", "L", "I", "X", ".", "C", "O", "M", ",", "-", "1", "5", ".", "9", "9", ",", "A", "C", "H", "_", "D", "E", "B", "I", "T", ",", "0", ".", "0", "0", ",", ",">>),
      Str(<<"D", "E", "B", "I", "T", ",", "0", "1", "/", "0", "4", "/", "2", "0", "2", "5", ",", "R", "E", "N", "T", ",", "-", "5", "0", "0", ".", "0", "0", ",", "A", "C", "H", "_", "D", "E", "B", "I", "T", ",", "1", "5", ".", "9", "9", ",", ",">>),
      Str(<<"C", "R", "E", "D", "I", "T", ",", "0", "1", "/", "0", "3", "/", "2", "0", "2", "5", ",", "P", "A", "Y", "R", "O", "L", "L", ",", "5", "0", "0", ".", "0", "0", ",", "A", "C", "H", "_", "C", "R", "E", "D", "I", "T", ",", "5", "1", "5", ".", "9", "9", ",", ",">>),
      Str(<<"D", "E", "B", "I", "T", ",", "0", "1", "/", "0", "6", "/", "2", "0", "2", "5", ",", "C", "O", "F", "F", "E", "E", ",", "-", "4", ".", "0", "0", ",", "D", "E", "B", "I", "T", "_", "C", "A", "R", "D", ",", "-", "4", ".", "0", "0", ",", ",">>),
      Str(<<"C", "R", "E", "D", "I", "T", ",", "0", "1", "/", "0", "7", "/", "2", "0", "2", "5", ",", "R", "E", "F", "U", "N", "D", ",", "4", ".", "0", "0", ",", "A", "C", "H", "_", "C", "R", "E", "D", "I", "T", ",", "0", ".", "0", "0", ",", ",">>) }

BalanceFiles ==
    { JoinLines(<< BankHeader >> \o rows) :
        rows \in UNION {[1..n -> BalanceRowPool] : n \in 0..MaxBalanceRows} }

\* Starting balances typed into the balance settings, in cents.
TypedBalances == {0, 1599, 50000}

\* A first visit: no stored file, the default settings.
InitBalance ==
    /\ today = DaysFromCivil(2025, 3, 4)
    /\ tick = 0
    /\ nthCall = None
    /\ schedCall = None
    /\ billsBeforePayday = <<>>
    /\ currentBalance = 0
    /\ nextCommission = None
    /\ projection = None
    /\ rawData = <<>>
    /\ settings = [startingBalance |-> 0]
    /\ zoneWest = FALSE
    /\ processed = <<>>
    /\ callArgs = None
    /\ callResult = None
    /\ transactionOverrides = <<>>
    /\ paydayInfo = None
    /\ storedBills = <<>>
    /\ dismissedSuggestions = {}
    /\ ignoredVendors = {}
    /\ lastRemoved = None

\* Index renders with a file and a starting balance: the transactions and
\* the current balance it passes on.
Rendered(raw, startingBalance) ==
    LET shown(transactions) ==
            /\ processed' = << [by  |-> "processTransactions",
                                at  |-> today,
                                out |-> transactions] >>
            /\ currentBalance' = IndexCurrentBalance(transactions, startingBalance)
    IN  shown(IndexTransactions(raw, startingBalance, today, zoneWest))

\* handleCSVUpload(content): the content is stored, the starting balance is
\* inferred from the oldest row, and Index renders again.
UploadFile ==
    \E content \in BalanceFiles :
        LET inferred(parsed) ==
                IF Len(parsed) > 0
                THEN parsed[Len(parsed)].balance - parsed[Len(parsed)].amount
                ELSE settings.startingBalance
            upload(inferredStart) ==
                /\ rawData' = content
                /\ settings' = [settings EXCEPT !.startingBalance = inferredStart]
                /\ Rendered(content, inferredStart)
        IN  upload(inferred(parseCSV(content)))
    /\ UNCHANGED <<clockVars, schedVars, billsBeforePayday, nextCommission, projection,
                   zoneWest, callVars, overrideVars, paydayVars, billVars>>

\* onStartingBalanceChange(val): the starting balance is set, and Index
\* renders again.
ChangeStartingBalance ==
    \E val \in TypedBalances :
        /\ settings' = [settings EXCEPT !.startingBalance = val]
        /\ Rendered(rawData, val)
    /\ UNCHANGED <<clockVars, schedVars, billsBeforePayday, nextCommission, projection,
                   rawData, zoneWest, callVars, overrideVars, paydayVars, billVars>>

NextBalance ==
    \/ UploadFile
    \/ ChangeStartingBalance

SpecBalance == InitBalance /\ [][NextBalance]_vars

(***************************************************************************)
(* useBills: the bills, the vendors ignored or dismissed, the suggestions.  *)
(* A Record<string, boolean> of vendor keys is the set of its keys; a field *)
(* that may be undefined is a sequence, empty when it is.                    *)
(***************************************************************************)

\* safeKey: normalizeVendor(vendorLike).trim().toLowerCase().
safeKey(vendorLike) == toLowerCase(trim(normalizeVendor(vendorLike)))

\* new Set(bills.map(b => safeKey(b.vendor)))
ExistingVendorKeys(bills) == {safeKey(bills[i].vendor) : i \in 1..Len(bills)}

\* A transaction with the vendorKey and the vendorLabel suggestedVendors
\* computes for it.
Keyed(tx) ==
    [tx          |-> tx,
     vendorKey   |-> safeKey(tx.description),
     vendorLabel |-> normalizeVendor(tx.description)]

\* The expenses among the transactions, each with its key and its label.
KeyedExpenses(transactions) ==
    LET keyed(expenses) == [k \in 1..Len(expenses) |-> Keyed(expenses[k])]
    IN  keyed(SelectSeq(transactions, isExpenseTx))

\* The expenses that reach the vendorMap: those whose vendor key is not the
\* key of a bill, nor dismissed, nor ignored.
Considered(keyed, hidden) ==
    IF keyed = <<>> \/ hidden = {} THEN keyed
    ELSE SelectSeq(keyed, LAMBDA e : e.vendorKey \notin hidden)

\* Math.round of the mean of amounts, in cents.
RoundedMean(amounts) == (2 * SumSeq(amounts) + Len(amounts)) \div (2 * Len(amounts))

\* The day of the month seen most often, the first seen among the days seen
\* equally often.
MostCommonDay(days) ==
    LET count(day) == Cardinality({i \in 1..Len(days) : days[i] = day})
        first(day) == Least({i \in 1..Len(days) : days[i] = day})
        best == CHOOSE i \in 1..Len(days) :
                    \A j \in 1..Len(days) :
                        \/ count(days[j]) < count(days[i])
                        \/ count(days[j]) = count(days[i]) /\ first(days[i]) <= first(days[j])
    IN  days[best]

\* The entry of the vendorMap made of the transactions of one vendor key, in
\* the order of the list, as a suggestion: the label of the first, the
\* category of the latest (the first of the latest day).
SuggestionOf(members, west) ==
    LET n == Len(members)
        time(i) == DateFromISO(members[i].tx.date)
        latest == CHOOSE i \in 1..n :
                      \A j \in 1..n : time(j) < time(i) \/ (time(j) = time(i) /\ i <= j)
    IN  [vendor          |-> members[1].vendorLabel,
         avgAmount       |-> RoundedMean([i \in 1..n |-> Abs(members[i].tx.amount)]),
         occurrences     |-> n,
         lastSeen        |-> ISODate(time(latest)),
         suggestedDueDay |-> MostCommonDay([i \in 1..n |->
                                 getDate(LocalDayOfISO(members[i].tx.date, west))]),
         category        |-> members[latest].tx.category]

\* The suggestions of the vendorMap, in the order in which its keys were
\* set, those of fewer than 2 transactions left out.
Suggestions(considered, west) ==
    LET firsts == SelectSeq([i \in 1..Len(considered) |-> i],
                      LAMBDA i : \A j \in 1..(i - 1) :
                                     considered[j].vendorKey # considered[i].vendorKey)
        members(i) == SelectSeq(considered,
                          LAMBDA e : e.vendorKey = considered[i].vendorKey)
        often == SelectSeq(firsts, LAMBDA i : Len(members(i)) >= 2)
    IN  [k \in 1..Len(often) |-> SuggestionOf(members(often[k]), west)]

\* The comparator of the suggestions: occurrences descending, then the
\* average amount descending.
CompareSuggestions(a, b) ==
    IF b.occurrences # a.occurrences THEN b.occurrences - a.occurrences
    ELSE b.avgAmount - a.avgAmount

\* suggestedVendors: the vendors seen twice or more as expenses that are not
\* in the bills, nor dismissed, nor ignored.
suggestedVendors(transactions, bills, dismissed, ignored, west) ==
    LET sorted(suggestions) == StableSort(suggestions, CompareSuggestions)
        listed(considered) == sorted(Suggestions(considered, west))
    IN  listed(Considered(KeyedExpenses(transactions),
                          ExistingVendorKeys(bills) \cup dismissed \cup ignored))

\* `bill-${Date.now()}`
BillId(day, ms) == Str(<<"b", "i", "l", "l", "-">>) \o DateNowString(day, ms)

\* addBill: the bill is appended with an id made of the clock.
addBill(prev, bill, day, ms) ==
    Append(prev, [bill EXCEPT !.id = BillId(day, ms)])

\* addFromSuggestion: addBill of the suggestion's vendor, average amount,
\* due day and category.
addFromSuggestion(prev, suggestion, day, ms) ==
    addBill(prev, [id         |-> <<>>,
                   vendor     |-> suggestion.vendor,
                   amount     |-> suggestion.avgAmount,
                   dueDay     |-> suggestion.suggestedDueDay,
                   category   |-> suggestion.category,
                   active     |-> TRUE,
                   type       |-> <<>>,
                   isResolved |-> <<>>], day, ms)

\* extractVendorName(tx.description) || normalizeVendor(tx.description)
NameOrNormalized(name, description) ==
    IF name # <<>> THEN name ELSE normalizeVendor(description)

\* prev.some(b => safeKey(b.vendor) === vendorKey && b.active)
ActiveBillOfKey(prev, key) ==
    \E i \in 1..Len(prev) : prev[i].active /\ safeKey(prev[i].vendor) = key

\* addBillFromTransaction: a bill of the vendor read from the description,
\* unless the transaction is no expense, no vendor can be read, or an active
\* bill has the vendor's key.
addBillFromTransaction(prev, tx, day, ms, west) ==
    LET added(vendor) ==
            IF vendor = <<>> \/ ActiveBillOfKey(prev, safeKey(vendor)) THEN prev
            ELSE Append(prev, [id         |-> BillId(day, ms),
                               vendor     |-> vendor,
                               amount     |-> Abs(tx.amount),
                               dueDay     |-> getDate(LocalDayOfISO(tx.date, west)),
                               category   |-> tx.category,
                               active     |-> TRUE,
                               type       |-> <<>>,
                               isResolved |-> <<>>])
    IN  IF ~isExpenseTx(tx) THEN prev
        ELSE added(trim(NameOrNormalized(extractVendorName(tx.description),
                                         tx.description)))

\* { ...b, ...updates }: the fields the updates carry replace the bill's.
Updated(b, updates) ==
    [b EXCEPT !.vendor = IF updates.vendor # <<>> THEN updates.vendor[1] ELSE @,
              !.amount = IF updates.amount # <<>> THEN updates.amount[1] ELSE @,
              !.dueDay = IF updates.dueDay # <<>> THEN updates.dueDay[1] ELSE @,
              !.category = IF updates.category # <<>> THEN updates.category[1] ELSE @]

\* updateBill: every bill of the id takes the updates.
updateBill(prev, id, updates) ==
    [i \in 1..Len(prev) |-> IF prev[i].id = id THEN Updated(prev[i], updates) ELSE prev[i]]

\* prev.find(b => b.id === id): the first bill of the id, if any.
FindBill(prev, id) ==
    LET found == SelectSeq(prev, LAMBDA b : b.id = id)
    IN  IF found = <<>> THEN <<>> ELSE << found[1] >>

\* ignoreVendor: the key of the vendor is set.
ignoreVendor(ignored, vendor) == ignored \cup {safeKey(vendor)}

\* unignoreVendor: the key of the vendor is deleted.
unignoreVendor(ignored, vendor) == ignored \ {safeKey(vendor)}

\* removeBill: the vendor of the first bill of the id is ignored, and every
\* bill of the id leaves the list.
removeBill(prev, ignored, id) ==
    [bills   |-> SelectSeq(prev, LAMBDA b : b.id # id),
     ignored |-> IF FindBill(prev, id) = <<>> THEN ignored
                 ELSE ignoreVendor(ignored, FindBill(prev, id)[1].vendor)]

(***************************************************************************)
(* useBills over the transactions of a file.                                *)
(***************************************************************************)

MaxStoredBills == 2
MaxBillTicks == 1

\* Bank files: a card purchase, and a subscription with a salary.
BillFiles ==
    { << Str(<<"D", "E", "B", "I", "T", ",", "0", "1", "/", "0", "7", "/", "2", "0", "2", "5", ",", "D", "E", "B", "I", "T", " ", "P", "U", "R", "C", "H", "A", "S", "E", " ", "H", "U", "L", "U", ",", "-", "7", ".", "9", "9", ",", "D", "E", "B", "I", "T", "_", "C", "A", "R", "D", ",", "1", "0", "0", "0", ".", "0", "0", ",", ",">>),
         Str(<<"D", "E", "B", "I", "T", ",", "0", "2", "/", "0", "7", "/", "2", "0", "2", "5", ",", "D", "E", "B", "I", "T", " ", "P", "U", "R", "C", "H", "A", "S", "E", " ", "H", "U", "L", "U", ",", "-", "7", ".", "9", "9", ",", "D", "E", "B", "I", "T", "_", "C", "A", "R", "D", ",", "1", "0", "0", "0", ".", "0", "0", ",", ",">>) >>,
      << Str(<<"D", "E", "B", "I", "T", ",", "0", "1", "/", "0", "5", "/", "2", "0", "2", "5", ",", "N", "E", "T", "F", "L", "I", "X", ".", "C", "O", "M", ",", "-", "1", "5", ".", "9", "9", ",", "A", "C", "H", "_", "D", "E", "B", "I", "T", ",", "1", "0", "0", "0", ".", "0", "0", ",", ",">>),
         Str(<<"D", "E", "B", "I", "T", ",", "0", "2", "/", "0", "5", "/", "2", "0", "2", "5", ",", "N", "E", "T", "F", "L", "I", "X", ".", "C", "O", "M", ",", "-", "1", "5", ".", "9", "9", ",", "A", "C", "H", "_", "D", "E", "B", "I", "T", ",", "1", "0", "0", "0", ".", "0", "0", ",", ",">>),
         Str(<<"C", "R", "E", "D", "I", "T", ",", "0", "1", "/", "1", "5", "/", "2", "0", "2", "5", ",", "P", "A", "Y", "R", "O", "L", "L", ",", "5", "0", "0", ".", "0", "0", ",", "A", "C", "H", "_", "C", "R", "E", "D", "I", "T", ",", "1", "0", "0", "0", ".", "0", "0", ",", ",">>) >> }

BillsStartDay == DaysFromCivil(2025, 3, 4)

\* The bill OneTimeBillEntry submits.
TypedBill ==
    [id         |-> <<>>,
     vendor     |-> Str(<<"G", "y", "m">>),
     amount     |-> 3000,
     dueDay     |-> 1,
     category   |-> "Miscellaneous",
     active     |-> TRUE,
     type       |-> << "one-time" >>,
     isResolved |-> << FALSE >>]

\* The updates of the editor of MyBills: vendor, amount and due day.
BillUpdates ==
    { [vendor |-> << Str(<<"H", "u", "l", "u">>) >>, amount |-> << 999 >>, dueDay |-> << 7 >>, category |-> <<>>] }

\* No bill is stored; the transactions are those of a file.
InitBills ==
    /\ today = BillsStartDay
    /\ tick = 0
    /\ nthCall = None
    /\ schedCall = None
    /\ billsBeforePayday = <<>>
    /\ currentBalance = 0
    /\ nextCommission = None
    /\ projection = None
    /\ rawData = <<>>
    /\ settings = [startingBalance |-> 0]
    /\ zoneWest = FALSE
    /\ processed = <<>>
    /\ callArgs \in {[transactions |->
                         processTransactions(parseCSV(JoinLines(<< BankHeader >> \o rows)),
                                             0, BillsStartDay, FALSE)] : rows \in BillFiles}
    /\ callResult = None
    /\ transactionOverrides = <<>>
    /\ paydayInfo = None
    /\ storedBills = <<>>
    /\ dismissedSuggestions = {}
    /\ ignoredVendors = {}
    /\ lastRemoved = None

\* The suggestions the hook returns in the state.
Suggested ==
    suggestedVendors(callArgs.transactions, storedBills, dismissedSuggestions,
                     ignoredVendors, zoneWest)

\* A millisecond passes.
MillisecondPasses ==
    /\ tick < MaxBillTicks
    /\ tick' = tick + 1
    /\ UNCHANGED <<today, schedVars, projVars, ingestVars, callVars, overrideVars, paydayVars, billVars>>

AddBill ==
    /\ Len(storedBills) < MaxStoredBills
    /\ storedBills' = addBill(storedBills, TypedBill, today, tick)
    /\ UNCHANGED <<clockVars, schedVars, projVars, ingestVars, callVars, overrideVars, paydayVars,
                   dismissedSuggestions, ignoredVendors, lastRemoved>>

AddFromSuggestion ==
    /\ Len(storedBills) < MaxStoredBills
    /\ LET add(suggestions) ==
               \E k \in 1..Len(suggestions) :
                   storedBills' = addFromSuggestion(storedBills, suggestions[k], today, tick)
       IN  add(Suggested)
    /\ UNCHANGED <<clockVars, schedVars, projVars, ingestVars, callVars, overrideVars, paydayVars,
                   dismissedSuggestions, ignoredVendors, lastRemoved>>

AddBillFromTransaction ==
    /\ Len(storedBills) < MaxStoredBills
    /\ \E i \in 1..Len(callArgs.transactions) :
           storedBills' = addBillFromTransaction(storedBills, callArgs.transactions[i],
                                                 today, tick, zoneWest)
    /\ UNCHANGED <<clockVars, schedVars, projVars, ingestVars, callVars, overrideVars, paydayVars,
                   dismissedSuggestions, ignoredVendors, lastRemoved>>

\* updateBill with the id of a bill of the list.
UpdateBill ==
    /\ \E i \in 1..Len(storedBills), updates \in BillUpdates :
           storedBills' = updateBill(storedBills, storedBills[i].id, updates)
    /\ UNCHANGED <<clockVars, schedVars, projVars, ingestVars, callVars, overrideVars, paydayVars,
                   dismissedSuggestions, ignoredVendors, lastRemoved>>

\* removeBill with the id of a bill of the list.
RemoveBill ==
    /\ \E i \in 1..Len(storedBills) :
           LET removed(result) ==
                   /\ storedBills' = result.bills
                   /\ ignoredVendors' = result.ignored
           IN  /\ removed(removeBill(storedBills, ignoredVendors, storedBills[i].id))
               /\ lastRemoved' = [vendor |-> FindBill(storedBills, storedBills[i].id)[1].vendor]
    /\ UNCHANGED <<clockVars, schedVars, projVars, ingestVars, callVars, overrideVars, paydayVars,
                   dismissedSuggestions>>

\* unignoreVendor with the vendor of the bill removed last, or with a vendor
\* typed.
UnignoreVendor ==
    /\ \E vendor \in {TypedBill.vendor}
                       \cup (IF lastRemoved = None THEN {} ELSE {lastRemoved.vendor}) :
           /\ ignoredVendors' = unignoreVendor(ignoredVendors, vendor)
           /\ lastRemoved' = IF lastRemoved = None THEN None
                             ELSE IF vendor = lastRemoved.vendor THEN None
                             ELSE lastRemoved
    /\ UNCHANGED <<clockVars, schedVars, projVars, ingestVars, callVars, overrideVars, paydayVars,
                   storedBills, dismissedSuggestions>>

RestoreAllIgnoredVendors ==
    /\ ignoredVendors' = {}
    /\ lastRemoved' = None
    /\ UNCHANGED <<clockVars, schedVars, projVars, ingestVars, callVars, overrideVars, paydayVars,
                   storedBills, dismissedSuggestions>>

\* dismissSuggestion with the vendor of a suggestion shown.
DismissSuggestion ==
    /\ LET dismiss(suggestions) ==
               \E k \in 1..Len(suggestions) :
                   dismissedSuggestions' =
                       dismissedSuggestions \cup {safeKey(suggestions[k].vendor)}
       IN  dismiss(Suggested)
    /\ UNCHANGED <<clockVars, schedVars, projVars, ingestVars, callVars, overrideVars, paydayVars,
                   storedBills, ignoredVendors, lastRemoved>>

RestoreAllSuggestions ==
    /\ dismissedSuggestions' = {}
    /\ UNCHANGED <<clockVars, schedVars, projVars, ingestVars, callVars, overrideVars, paydayVars,
                   storedBills, ignoredVendors, lastRemoved>>

NextBills ==
    \/ MillisecondPasses
    \/ AddBill
    \/ AddFromSuggestion
    \/ AddBillFromTransaction
    \/ UpdateBill
    \/ RemoveBill
    \/ UnignoreVendor
    \/ RestoreAllIgnoredVendors
    \/ DismissSuggestion
    \/ RestoreAllSuggestions

SpecBills == InitBills /\ [][NextBills]_vars

(***************************************************************************)
(* Claims about the ingestion of files (SpecIngest).                        *)
(***************************************************************************)

\* (C1) Parsing and processing the same content twice, with the same
\* starting balance, yields the same transactions: the same ids in the same
\* order, the same field values and running balances, whenever the two runs
\* are made.  rawData and settings never change in SpecIngest, so two runs of
\* one function are two runs over the same content and starting balance.
C1_SameContentSameResult ==
    (Len(processed) = 2 /\ processed[1].by = processed[2].by)
        => processed[1].out = processed[2].out

\* The runs of processTransactions that are remembered.
StableRuns == {k \in 1..Len(processed) : processed[k].by = "processTransactions"}

\* The raw records of run k in the order processTransactions gave them.
SortedRaw(k) ==
    StableSort(parseCSV(rawData), LAMBDA a, b : CompareRaw(a, b, processed[k].at))

\* Exact duplicates: the same date, amount, type, description and category
\* hint.
ExactDuplicates(a, b, now) ==
    /\ parseDate(a.postingDate, now) = parseDate(b.postingDate, now)
    /\ a.amount = b.amount
    /\ a.type = b.type
    /\ a.description = b.description
    /\ a.qbCategory = b.qbCategory

\* The same date and amount, and the same type, description and category
\* hint once trimmed and compared without regard to case.
SameIgnoringCase(a, b, now) ==
    /\ parseDate(a.postingDate, now) = parseDate(b.postingDate, now)
    /\ a.amount = b.amount
    /\ toLowerCase(trim(a.type)) = toLowerCase(trim(b.type))
    /\ toLowerCase(trim(a.description)) = toLowerCase(trim(b.description))
    /\ toLowerCase(trim(a.qbCategory)) = toLowerCase(trim(b.qbCategory))

\* In every remembered run of processTransactions, the records of one group
\* have pairwise distinct ids, and the k-th record of a group in sorted order
\* has the id made from occurrence k.
GroupsCountedFromOne(InGroup(_, _, _)) ==
    \A k \in StableRuns :
        LET now    == processed[k].at
            out    == processed[k].out
            sorted == SortedRaw(k)
            nth    == [i \in 1..Len(sorted) |->
                          Cardinality({j \in 1..i : InGroup(sorted[j], sorted[i], now)})]
        IN  /\ Len(out) = Len(sorted)
            /\ \A i \in 1..Len(out) : out[i].id = makeStableTxId(sorted[i], nth[i], now)
            /\ \A i, j \in 1..Len(out) :
                  (i # j /\ InGroup(sorted[i], sorted[j], now)) => out[i].id # out[j].id

\* (C2) Raw records that are exact duplicates of each other receive pairwise
\* distinct ids: the occurrence counter is kept per group of identical
\* records, starts at 1 in each group, and the k-th duplicate in sorted order
\* gets the id derived from occurrence k.
C2_ExactDuplicatesCountedFromOne == GroupsCountedFromOne(ExactDuplicates)

\* (C2, amended) The same with the groups the code forms: records with the
\* same date and amount whose type, description and category hint are equal
\* once trimmed and lower-cased.
C2_KeyGroupsCountedFromOne == GroupsCountedFromOne(SameIgnoringCase)

\* A run of processTransactions over a file with two exact duplicates, which
\* received different ids.
C2_Witness ==
    \E k \in StableRuns :
        LET sorted == SortedRaw(k)
        IN  \E i, j \in 1..Len(sorted) :
                /\ i < j
                /\ ExactDuplicates(sorted[i], sorted[j], processed[k].at)
                /\ processed[k].out[i].id # processed[k].out[j].id

\* (C3) For the transactions a run returned, taken oldest first (the
\* returned list reversed), the first running balance is the starting balance
\* plus the first amount and every later one is the one before plus the
\* amount.
C3_RunningBalanceChain ==
    \A k \in 1..Len(processed) :
        LET out == processed[k].out
            n   == Len(out)
            chronological == [i \in 1..n |-> out[n + 1 - i]]
        IN  \A i \in 1..n :
                chronological[i].runningBalance =
                    (IF i = 1 THEN settings.startingBalance
                     ELSE chronological[i - 1].runningBalance)
                    + chronological[i].amount

\* A run that returned two transactions on different days, from a starting
\* balance other than zero.
C3_Witness ==
    \E k \in 1..Len(processed) :
        /\ Len(processed[k].out) >= 2
        /\ settings.startingBalance # 0
        /\ processed[k].out[1].date # processed[k].out[2].date
        /\ processed[k].out[1].amount # processed[k].out[2].amount

\* The results of processTransactions of the later version.
Processed == {k \in 1..Len(processed) : processed[k].by = "processTransactions"}

\* Another expense of the list has the normalized vendor of transaction i.
SharesVendor(out, i) ==
    \E j \in 1..Len(out) :
        /\ j # i
        /\ out[j].amount < 0
        /\ normalizeVendor(out[j].description) = normalizeVendor(out[i].description)

\* (C12) In a list returned by processTransactions no transaction is marked
\* recurring when its amount is not negative, or when no other expense of the
\* list has its normalized vendor.
C12_RecurringOnlySharedExpenses ==
    \A k \in Processed :
        \A i \in 1..Len(processed[k].out) :
            processed[k].out[i].isRecurring =>
                /\ processed[k].out[i].amount < 0
                /\ SharesVendor(processed[k].out, i)

\* A returned list with a transaction marked recurring.
C12_Witness ==
    \E k \in Processed : \E i \in 1..Len(processed[k].out) :
        processed[k].out[i].isRecurring

(***************************************************************************)
(* Claims about the schedule calculator (SpecSchedule).                     *)
(***************************************************************************)

\* C4: for every reference date today, getNextScheduledPaymentDate(today)
\* returns a period whose payment date is strictly after today, also when
\* today is itself a scheduled payment date.
C4_NextPaymentStrictlyAfterToday ==
    schedCall # None => schedCall.period.paymentDate > schedCall.today

\* Witness of C4: the function was called on a day that is itself a payment
\* date and returned a later payment date.
C4_Witness ==
    /\ schedCall # None
    /\ isPaymentDate(schedCall.today)
    /\ schedCall.period.paymentDate > schedCall.today

\* C5: the result of getNthBusinessDayAfter(date, 4) is not a Saturday, not a
\* Sunday and not in the bank-holiday table, and exactly 4 days d with
\* date < d <= result are neither weekend days nor listed holidays.
C5_FourthBusinessDay ==
    (nthCall # None /\ nthCall.n = 4) =>
        /\ ~IsWeekend(nthCall.result)
        /\ nthCall.result \notin BANK_HOLIDAYS
        /\ nthCall.result > nthCall.from
        /\ Cardinality({d \in (nthCall.from + 1) .. nthCall.result :
                           ~IsWeekend(d) /\ d \notin BANK_HOLIDAYS}) = 4

\* Witness of C5: a call with n = 4 whose walk crossed a weekend and a listed
\* holiday.
C5_Witness ==
    /\ nthCall # None
    /\ nthCall.n = 4
    /\ \E d \in (nthCall.from + 1) .. nthCall.result : d \in BANK_HOLIDAYS
    /\ \E d \in (nthCall.from + 1) .. nthCall.result : IsWeekend(d)

(***************************************************************************)
(* Claims about the projection (SpecProjection).                            *)
(***************************************************************************)

\* The sum of the amounts of the bills at the positions idx of billList.
RECURSIVE AmountOver(_, _)
AmountOver(billList, idx) ==
    IF idx = {} THEN 0
    ELSE LET i == CHOOSE j \in idx : TRUE
         IN  billList[i].amount + AmountOver(billList, idx \ {i})

\* The liquidity the inputs call for: the balance, plus the commission when
\* its expected date is the day of the call.
ExpectedLiquidity(callDay) ==
    currentBalance +
        (IF nextCommission # None
            /\ DaysFromCivil(nextCommission.expectedDate.y, nextCommission.expectedDate.m,
                             nextCommission.expectedDate.d) = callDay
         THEN nextCommission.amount ELSE 0)

\* C6: for every current balance, bill set and pending commission the
\* coveragePercent returned by useFinancialProjection lies in [0, 100].
C6_CoverageInRange ==
    projection # None =>
        (0 <= projection.out.coveragePercent /\ projection.out.coveragePercent <= 100)

\* C7: amountToKeep is the sum of the amounts of exactly the bills of the
\* payday window whose status is unresolved; a resolved bill of the window
\* contributes nothing.
C7_AmountToKeepIsUnresolvedSum ==
    projection # None =>
        LET all        == 1 .. Len(billsBeforePayday)
            unresolved == {i \in all : ~billsBeforePayday[i].isResolved}
            resolved   == {i \in all : billsBeforePayday[i].isResolved}
        IN  /\ projection.out.amountToKeep = AmountOver(billsBeforePayday, unresolved)
            /\ projection.out.amountToKeep =
                   AmountOver(billsBeforePayday, all) - AmountOver(billsBeforePayday, resolved)
            /\ projection.out.pendingCount = Cardinality(unresolved)

\* Witness of C7: a projection over a window that holds a resolved and an
\* unresolved bill, both with an amount > 0.
C7_Witness ==
    /\ projection # None
    /\ \E i, j \in 1 .. Len(billsBeforePayday) :
          /\ billsBeforePayday[i].isResolved /\ billsBeforePayday[i].amount > 0
          /\ ~billsBeforePayday[j].isResolved /\ billsBeforePayday[j].amount > 0
    /\ projection.out.amountToKeep > 0

C9_ShortfallAndIsShort ==
    projection # None =>
        LET out == projection.out
            gap == out.amountToKeep - out.liquidityBalance
        IN  /\ out.liquidityBalance = ExpectedLiquidity(projection.today)
            /\ out.shortfall = (IF gap > 0 THEN gap ELSE 0)
            /\ out.isShort <=> (out.shortfall > 0)
            /\ out.isShort <=> (out.safeToSpend < 0)

\* Witness of C9: a projection that is short.
C9_Witness ==
    /\ projection # None
    /\ projection.out.isShort
    /\ projection.out.shortfall > 0
    /\ projection.out.liquidityBalance > 0

GapsOf(transactions) ==
    [i \in 1..(Len(transactions) - 1) |->
        DateFromISO(transactions[i + 1].date) - DateFromISO(transactions[i].date)]

\* Four expenses of one vendor, all of the same amount, that detectRecurring
\* has classified.
FourAlikeClassified ==
    /\ callResult # None
    /\ Len(callArgs) = 4
    /\ \A i \in 1..4 : callArgs[i].amount = callArgs[1].amount

\* (C11) Four expenses of one vendor with clustering amounts are classified
\* recurring when the successive gaps are 29, 31, 30 days, and not recurring
\* when they are 3, 45, 9 days.
C11_CadenceExamples ==
    FourAlikeClassified =>
        /\ GapsOf(callArgs) = << 29, 31, 30 >> => \A i \in 1..4 : callResult.returned[i]
        /\ GapsOf(callArgs) = << 3, 45, 9 >> => \A i \in 1..4 : ~callResult.returned[i]

\* The 29, 31, 30 half of the examples on its own.
C11_MonthlyExample ==
    (FourAlikeClassified /\ GapsOf(callArgs) = << 29, 31, 30 >>) =>
        \A i \in 1..4 : callResult.returned[i]

\* The call on the 3, 45, 9 example has returned.
C11_IrregularExampleClassified ==
    FourAlikeClassified /\ GapsOf(callArgs) = << 3, 45, 9 >>

(***************************************************************************)
(* Claims about the resolution of bills (SpecResolve).                      *)
(***************************************************************************)

\* The positions of the transactions passed that are dated in the calendar
\* month of today, are expense-equivalent and have the vendor key of the bill.
MonthExpensesOf(bill) ==
    {i \in 1..Len(callArgs.transactions) :
        LET tx == callArgs.transactions[i]
            name == extractVendorName(tx.description)
        IN  /\ SubSeq(tx.date, 1, 7) = SubSeq(ISODate(today), 1, 7)
            /\ isExpenseTx(tx)
            /\ (IF name # <<>> THEN vendorKey(name) ELSE vendorKey(tx.description))
                   = vendorKey(bill.vendor)}

\* How far the amount of the i-th transaction passed is from that of the bill.
AmountGap(bill, i) == Abs(Abs(callArgs.transactions[i].amount) - bill.amount)

\* The status reported for the bill says what the statement asks of it.
ReportedAsStated(bill) ==
    LET status == callResult.returned[bill.id]
        among  == MonthExpensesOf(bill)
    IN  /\ status.isResolved <=> among # {}
        /\ among # {} =>
              \E i \in among :
                  /\ status.matchingTransactionId = << callArgs.transactions[i].id >>
                  /\ \A j \in among : AmountGap(bill, i) <= AmountGap(bill, j)
                  /\ \A j \in among : j < i => AmountGap(bill, j) > AmountGap(bill, i)

ActiveBills == {k \in 1..Len(callArgs.bills) : callArgs.bills[k].active}

\* (C13) Every active bill is reported resolved exactly when some
\* expense-equivalent transaction of the current month has its vendor key, and
\* the match reported is the one whose absolute amount is nearest to the
\* bill's, the earliest of the list among equally near ones.
C13_ResolvedByNearestOfMonth ==
    callResult # None => \A k \in ActiveBills : ReportedAsStated(callArgs.bills[k])

\* The same where local time is not behind UTC.
C13_ResolvedByNearestOfMonth_NotWest ==
    (callResult # None /\ ~zoneWest) =>
        \A k \in ActiveBills : ReportedAsStated(callArgs.bills[k])

\* A bill matched to the earlier of two equally near transactions.
C13_TieWitness ==
    /\ callResult # None
    /\ ~zoneWest
    /\ \E k \in ActiveBills :
          \E i, j \in MonthExpensesOf(callArgs.bills[k]) :
              /\ i < j
              /\ AmountGap(callArgs.bills[k], i) = AmountGap(callArgs.bills[k], j)
              /\ callResult.returned[callArgs.bills[k].id].matchingTransactionId
                     = << callArgs.transactions[i].id >>

\* (C14) The status of a bill is the one the function gives for that bill
\* alone with the same transactions, whatever other bills are passed with it
\* and in whatever order; a bill that is not active has no status.
C14_StatusOfBillAlone ==
    callResult # None =>
        \A k \in 1..Len(callArgs.bills) :
            LET bill == callArgs.bills[k]
                alone == resolveBillsFromTransactions(<< bill >>, callArgs.transactions,
                                                      today, zoneWest)
            IN  IF bill.active
                THEN /\ bill.id \in DOMAIN callResult.returned
                     /\ callResult.returned[bill.id] = alone[bill.id]
                ELSE bill.id \notin DOMAIN callResult.returned

\* Two bills of one call are matched to the same transaction.
C14_Witness ==
    /\ callResult # None
    /\ \E k, l \in ActiveBills :
          /\ k < l
          /\ callResult.returned[callArgs.bills[k].id].isResolved
          /\ callResult.returned[callArgs.bills[k].id].matchingTransactionId
                 = callResult.returned[callArgs.bills[l].id].matchingTransactionId

(***************************************************************************)
(* Claims about parseCSV (SpecParse).                                       *)
(***************************************************************************)

\* No line of the content has one of the three header signatures.
NoHeaderLine(content) ==
    LET lines == split(trim(content), NEWLINE)
    IN  \A i \in 1..Len(lines) :
            /\ ~IsQuickBooksHeader(toLowerCase(lines[i]))
            /\ ~IsBankHeader(toLowerCase(lines[i]))
            /\ ~IsChaseCardHeader(toLowerCase(lines[i]))

\* No line after the first has six fields or more.
NoBankRowAfterFirst(content) ==
    LET lines == split(trim(content), NEWLINE)
    IN  \A i \in 2..Len(lines) : Len(parseCSVLine(lines[i])) < 6

RecordsOfRow(header, row) == parseCSV(Content([header |-> header, rows |-> << row >>]))

\* The records of the rows from the i-th on, each row taken on its own.
RECURSIVE RecordsOfRows(_, _, _)
RecordsOfRows(header, rows, i) ==
    IF i > Len(rows) THEN <<>>
    ELSE RecordsOfRow(header, rows[i]) \o RecordsOfRows(header, rows, i + 1)

\* A file of one of the three formats has been parsed.
FormatParsed == callResult # None /\ callArgs.header # <<>>

Skipped(header, kind) ==
    IF header = QuickBooksHeader THEN kind # "good"
    ELSE IF header = ChaseCardHeader THEN kind \in {"short", "nodate"}
    ELSE kind = "short"

LastDayIn(year, month) == MkDate(year, month + 1, 0)

\* The due day of a bill in a month, or the last day of that month when the
\* month is shorter.
DueOrLastDayIn(year, month, dueDay) ==
    IF dueDay > getDate(LastDayIn(year, month)) THEN LastDayIn(year, month)
    ELSE MkDate(year, month, dueDay)

\* The month in which the expected date of a bill is computed: the month of
\* today, or the one after it when the bill's day of this month has passed
\* and the bill is not a one-time bill.
ComputedInMonth(bill) ==
    IF DueOrLastDayIn(getFullYear(today), getMonth(today), bill.dueDay) < today
       /\ bill.type # Str(<<"o", "n", "e", "-", "t", "i", "m", "e">>)
    THEN getMonth(today) + 1
    ELSE getMonth(today)

\* (C17) A bill returned whose due day is greater than the number of days of
\* the month in which its expected date is computed has the last day of that
\* month as its expected date.
C17_DueDayClampedToMonthEnd ==
    callResult # None =>
        \A k \in 1..Len(callResult.returned) :
            LET bill  == callResult.returned[k].bill
                month == ComputedInMonth(bill)
            IN  bill.dueDay > getDate(LastDayIn(getFullYear(today), month)) =>
                    callResult.returned[k].expectedDate = LastDayIn(getFullYear(today), month)

\* A bill is returned whose due day its month does not have.
C17_ShortMonthReturned ==
    /\ callResult # None
    /\ \E k \in 1..Len(callResult.returned) :
          callResult.returned[k].bill.dueDay
              > getDate(LastDayIn(getFullYear(today),
                                  ComputedInMonth(callResult.returned[k].bill)))

(***************************************************************************)
(* Claims about the overrides (SpecOverrides).  The stored content is never *)
(* replaced in a behaviour: every list is computed from the identical file. *)
(***************************************************************************)

\* The list Index shows: the latest list computed, with the overrides.
ShownTransactions ==
    transactionsWithOverrides(processed[Len(processed)].out, transactionOverrides)

\* (C18) Every override recorded for an id stays attached: the list shown has
\* a transaction of that id, and it has the overridden category and
\* recurring flag.
C18_OverridesStayAttached ==
    processed # <<>> =>
        \A id \in DOMAIN transactionOverrides :
            \E i \in 1..Len(ShownTransactions) :
                /\ ShownTransactions[i].id = id
                /\ transactionOverrides[id].category # <<>> =>
                       ShownTransactions[i].category = transactionOverrides[id].category[1]
                /\ transactionOverrides[id].isRecurring # <<>> =>
                       ShownTransactions[i].isRecurring = transactionOverrides[id].isRecurring[1]

\* The same for the lists of the later version, all computed before 2100.
C18_OverridesStayAttached_Before2100 ==
    (/\ processed # <<>>
     /\ processed[Len(processed)].by = "processTransactions"
     /\ getFullYear(today) < 2100) =>
        \A id \in DOMAIN transactionOverrides :
            \E i \in 1..Len(ShownTransactions) :
                /\ ShownTransactions[i].id = id
                /\ transactionOverrides[id].category # <<>> =>
                       ShownTransactions[i].category = transactionOverrides[id].category[1]
                /\ transactionOverrides[id].isRecurring # <<>> =>
                       ShownTransactions[i].isRecurring = transactionOverrides[id].isRecurring[1]

\* An override was made on a list computed before the one shown.
C18_OverrideOutlivesList ==
    /\ Len(processed) = 2
    /\ processed[1].at # processed[2].at
    /\ processed[2].by = "processTransactions"
    /\ transactionOverrides # <<>>
    /\ \E id \in DOMAIN transactionOverrides :
          \E i \in 1..Len(processed[1].out) : processed[1].out[i].id = id

(***************************************************************************)
(* Claims about the next commission (SpecCommissions).                      *)
(***************************************************************************)

\* The positions of the pending commissions expected today or later.
ExpectedFromToday ==
    {i \in 1..Len(callArgs) : parseLocalDate(callArgs[i].expectedDate) >= today}

PeriodsUpTo(day) ==
    LET periodsOf(d) == getPayPeriods(getFullYear(d), getMonth(d))
    IN  periodsOf(MkDate(getFullYear(day), getMonth(day), 1) - 1) \o periodsOf(day)

\* The cutoff that follows each of these periods.
FollowingCutoffs(day) ==
    LET periods == PeriodsUpTo(day)
    IN  [i \in 1..Len(periods) |->
            IF i < Len(periods) THEN periods[i + 1].cutoffDate
            ELSE MkDate(getFullYear(day), getMonth(day) + 1, 15)]

\* The latest of these periods paid on the day or before it.
MostRecentPaid(day) ==
    LET periods == PeriodsUpTo(day)
    IN  CHOOSE i \in 1..Len(periods) :
            /\ periods[i].paymentDate <= day
            /\ \A j \in 1..Len(periods) : periods[j].paymentDate <= day => j <= i

\* Whether the day is on or after the most recent payment day and before the
\* cutoff that follows it.
InPayWindow(day) ==
    /\ day >= PeriodsUpTo(day)[MostRecentPaid(day)].paymentDate
    /\ day < FollowingCutoffs(day)[MostRecentPaid(day)]

\* (C20) payPeriodImpact of a date is true exactly when the date is on or
\* after the most recent scheduled payment date and strictly before the
\* cutoff that follows that payment.
C20_ImpactIsPayWindow ==
    callResult # None =>
        (callResult.returned <=> InPayWindow(DateFromISO(callArgs)))

\* Away from the west, a date for which payPeriodImpact is true is in the
\* pay window.
C20_ImpactOnlyInPayWindow ==
    (callResult # None /\ ~zoneWest /\ callResult.returned)
        => InPayWindow(DateFromISO(callArgs))

\* Away from the west, a date after the payment of the 15th has the
\* payPeriodImpact of the window.
C20_SecondHalfOfMonth ==
    (/\ callResult # None
     /\ ~zoneWest
     /\ MostRecentPaid(DateFromISO(callArgs)) = 3)
        => (callResult.returned <=> InPayWindow(DateFromISO(callArgs)))

\* A date between the payment of the last cutoff and the 15th has no
\* payPeriodImpact.
C20_FirstHalfOutcome ==
    /\ callResult # None
    /\ ~zoneWest
    /\ MostRecentPaid(DateFromISO(callArgs)) = 2
    /\ InPayWindow(DateFromISO(callArgs))
    /\ ~callResult.returned

(***************************************************************************)
(* Claims about the next scheduled payment (SpecSchedule).                  *)
(***************************************************************************)

\* The contract payment dates strictly between two days.
PaymentsBetween(from, to) == {d \in (from + 1)..(to - 1) : isPaymentDate(d)}

\* (C21) getNextScheduledPaymentDate returns the first scheduled payment
\* strictly after today: no contract payment date lies strictly after today
\* and strictly before the payment date returned.
C21_NoPaymentBeforeTheNext ==
    schedCall # None =>
        PaymentsBetween(schedCall.today, schedCall.period.paymentDate) = {}

\* From the payment that follows the last day of the month before on, the
\* payment returned is the first one after today.
C21_NoPaymentBeforeTheNext_AfterFirstPayment ==
    (/\ schedCall # None
     /\ \E d \in MkDate(getFullYear(schedCall.today), getMonth(schedCall.today), 1)
                    ..schedCall.today : isPaymentDate(d))
        => PaymentsBetween(schedCall.today, schedCall.period.paymentDate) = {}

\* On the first days of a month the payment of the month before is passed
\* over.
C21_PaymentPassedOver ==
    /\ schedCall # None
    /\ getDate(schedCall.today) = 2
    /\ PaymentsBetween(schedCall.today, schedCall.period.paymentDate) # {}
    /\ getDate(schedCall.period.paymentDate) > 15

(***************************************************************************)
(* Claims about the next payday (SpecPayday).                               *)
(***************************************************************************)

\* The date of the commission the last render was given, if it was given one.
RenderedCommissionDate ==
    IF paydayInfo.memo.dep = None THEN <<>>
    ELSE << parseLocalDate(paydayInfo.memo.dep.expectedDate) >>

\* (C22) The payday date a render of useNextPayday returns is strictly after
\* the start of the day of the render, whatever the pending commission is.
C22_PaydayAfterToday ==
    paydayInfo # None =>
        paydayInfo.memo.out.paydayDate > startOfDay(paydayInfo.renderedOn)

\* A payday computed at the render is strictly after the start of its day: a
\* commission dated that day bridges to the next scheduled payment, a later
\* commission date is used as is, and an earlier or absent commission falls
\* back to the next scheduled payment.
C22_ComputedPaydayAfterToday ==
    (paydayInfo # None /\ paydayInfo.memo.computedOn = paydayInfo.renderedOn) =>
        /\ paydayInfo.memo.out.paydayDate > startOfDay(paydayInfo.renderedOn)
        /\ paydayInfo.memo.out.paydayDate =
              IF RenderedCommissionDate # <<>>
                     /\ RenderedCommissionDate[1] > paydayInfo.renderedOn
              THEN RenderedCommissionDate[1]
              ELSE getNextScheduledPaymentDate(paydayInfo.renderedOn).paymentDate

\* A render on the day of the commission returns the payday computed on a
\* day before: the commission's date, which is the day of the render.
C22_StalePayday ==
    /\ paydayInfo # None
    /\ paydayInfo.memo.computedOn < paydayInfo.renderedOn
    /\ RenderedCommissionDate = << paydayInfo.renderedOn >>
    /\ paydayInfo.memo.out.paydayDate = paydayInfo.renderedOn

(***************************************************************************)
(* Claims about the order of the rows of a file (SpecPermute).              *)
(***************************************************************************)

\* Both orders of the rows have been processed.
BothProcessed == callResult.given # <<>> /\ callResult.permuted # <<>>

\* Whether a transaction may stand directly before another: newer first,
\* then the description, then the larger amount, then the type, the two
\* texts compared in lower case.
InOrder(a, b) ==
    LET byType == localeCompare(toLowerCase(a.type), toLowerCase(b.type)) <= 0
        byAmount == a.amount > b.amount \/ (a.amount = b.amount /\ byType)
        byDescription(descCmp) == descCmp < 0 \/ (descCmp = 0 /\ byAmount)
    IN  \/ DateFromISO(a.date) > DateFromISO(b.date)
        \/ /\ a.date = b.date
           /\ byDescription(localeCompare(toLowerCase(a.description),
                                          toLowerCase(b.description)))

Ordered(out) == \A i \in 1..(Len(out) - 1) : InOrder(out[i], out[i + 1])

\* The sort keys of the transactions of a list, as they are written.
KeysOf(out) ==
    [i \in 1..Len(out) |->
        <<out[i].date, out[i].description, out[i].amount, out[i].type>>]

\* The sort keys with the two texts in lower case.
LowerKeysOf(out) ==
    [i \in 1..Len(out) |->
        <<out[i].date, toLowerCase(out[i].description), out[i].amount,
          toLowerCase(out[i].type)>>]

StatedExpectedDate(bill) ==
    DueOrLastDayIn(getFullYear(today), ComputedInMonth(bill), bill.dueDay)

\* The ids of the active bills expected from today to the payday.
DueInWindow ==
    {callArgs.bills[i].id : i \in
        {i \in 1..Len(callArgs.bills) :
            /\ callArgs.bills[i].active
            /\ StatedExpectedDate(callArgs.bills[i]) >= today
            /\ StatedExpectedDate(callArgs.bills[i]) <= callArgs.paydayCutoffEnd.day}}

ReturnedIds == {callResult.returned[k].bill.id : k \in 1..Len(callResult.returned)}

\* Every active bill of the call has its due day in the month in which its
\* expected date is computed.
DueDaysInMonth ==
    \A i \in 1..Len(callArgs.bills) :
        callArgs.bills[i].active =>
            callArgs.bills[i].dueDay
                <= getDate(LastDayIn(getFullYear(today), ComputedInMonth(callArgs.bills[i])))

\* (C24) useBillsBeforePayday returns exactly the active bills whose expected
\* date lies from the start of today to the end of the payday, each once; a
\* one-time bill whose due day has passed is not among them.
C24_ExactlyTheBillsInWindow ==
    (callResult # None /\ callArgs.paydayCutoffEnd # None) =>
        /\ ReturnedIds = DueInWindow
        /\ Len(callResult.returned) = Cardinality(DueInWindow)

\* The same when every due day exists in its month.
C24_ExactlyTheBillsInWindow_DueDaysInMonth ==
    (callResult # None /\ callArgs.paydayCutoffEnd # None /\ DueDaysInMonth) =>
        /\ ReturnedIds = DueInWindow
        /\ Len(callResult.returned) = Cardinality(DueInWindow)

\* On the last day of February a bill due on the 31st is left out of a
\* window that ends two days later.
C24_LastDayLeftOut ==
    /\ callResult # None
    /\ callArgs.paydayCutoffEnd # None
    /\ \E i \in 1..Len(callArgs.bills) :
          /\ callArgs.bills[i].active
          /\ StatedExpectedDate(callArgs.bills[i]) = today
          /\ callArgs.bills[i].id \notin ReturnedIds

\* Of two bills only one is returned: its day has passed and it is expected
\* in the next month.
C24_NextMonthReturned ==
    /\ callResult # None
    /\ callArgs.paydayCutoffEnd # None
    /\ DueDaysInMonth
    /\ Len(callArgs.bills) = 2
    /\ Len(callResult.returned) = 1
    /\ callResult.returned[1].bill.dueDay < getDate(today)
    /\ getMonth(callResult.returned[1].expectedDate) = getMonth(today) + 1

(***************************************************************************)
(* Claims about the amounts of a vendor (SpecRecurring).  The transactions  *)
(* of a call are the expenses of one vendor.                                *)
(***************************************************************************)

\* The sum of the absolute amounts of the call, in cents.
TotalOfGroup == SumSeq([i \in 1..Len(callArgs) |-> Abs(callArgs[i].amount)])

\* Whether the i-th amount differs from the mean of the group by more than
\* the greater of 20% of the mean and 15 dollars; both sides are multiplied
\* by five times the number of transactions.
FarFromMean(i) ==
    5 * Abs(Len(callArgs) * Abs(callArgs[i].amount) - TotalOfGroup)
        > Max(TotalOfGroup, 5 * Len(callArgs) * 1500)

\* (C25) If at least one amount of a vendor group differs from the mean of
\* the group by more than max(20% of the mean, 15 dollars), no transaction
\* of the group is flagged recurring, whatever the gaps between the dates.
C25_ScatteredAmountsNeverRecurring ==
    callResult # None =>
        ((\E i \in 1..Len(callArgs) : FarFromMean(i))
            => \A i \in 1..Len(callArgs) : ~callResult.returned[i])

\* Three charges a month apart, one of them far from the mean, have been
\* classified.
C25_Witness ==
    /\ callResult # None
    /\ Len(callArgs) = 3
    /\ GapsOf(callArgs) = << 30, 30 >>
    /\ \E i \in 1..3 : FarFromMean(i)
    /\ \A i \in 1..3 : ~callResult.returned[i]

(***************************************************************************)
(* Claims about the ids of the rows of a file in two orders (SpecPermute).  *)
(***************************************************************************)

\* The ids of a list of transactions, in the order of the list.
IdsOf(out) == [i \in 1..Len(out) |-> out[i].id]

\* How many transactions of a list carry an id.
CountOfId(out, id) == Cardinality({i \in 1..Len(out) : out[i].id = id})

\* Two lists carry the same ids, each as many times.
SameIds(a, b) ==
    /\ Len(a) = Len(b)
    /\ \A i \in 1..Len(a) : CountOfId(a, a[i].id) = CountOfId(b, a[i].id)

\* (C27) The ids processTransactions gives the rows of a file are the same,
\* each as many times, whatever the order of the rows in the file.
C27_SameIdsInEveryOrder ==
    BothProcessed => SameIds(callResult.given[1], callResult.permuted[1])

\* Two rows that differ in the case of the description came out in two
\* orders, so that an id went to one of them from one file and to the other
\* from the other file, and the ids are still the same.
C27_Witness ==
    /\ BothProcessed
    /\ Len(callResult.given[1]) >= 2
    /\ IdsOf(callResult.given[1]) = IdsOf(callResult.permuted[1])
    /\ \E i \in 1..Len(callResult.given[1]) :
           callResult.given[1][i].description # callResult.permuted[1][i].description
    /\ \E i, j \in 1..Len(callResult.given[1]) :
           i # j /\ callResult.given[1][i].id # callResult.given[1][j].id

(***************************************************************************)
(* Claims about the current balance of Index (SpecBalance).                 *)
(***************************************************************************)

\* The transactions Index shows.
Shown == IF processed = <<>> THEN <<>> ELSE processed[1].out

C28_CurrentIsNewestRunningBalance_NotZero ==
    (Shown # <<>> /\ Shown[1].runningBalance # 0) =>
        /\ currentBalance = Shown[1].runningBalance
        /\ currentBalance =
               settings.startingBalance + SumSeq([i \in 1..Len(Shown) |-> Shown[i].amount])

\* The newest running balance is always the starting balance plus the sum of
\* the amounts.
C28_NewestRunningIsSum ==
    Shown # <<>> =>
        Shown[1].runningBalance =
            settings.startingBalance + SumSeq([i \in 1..Len(Shown) |-> Shown[i].amount])

\* The account stands at zero after the newest of two transactions, and the
\* starting balance is passed on as the current balance.
C28_ZeroBalancePassedOver ==
    /\ Len(Shown) = 2
    /\ Shown[1].runningBalance = 0
    /\ settings.startingBalance # 0
    /\ currentBalance = settings.startingBalance

(***************************************************************************)
(* Claims about the bills and the suggestions of useBills (SpecBills).      *)
(***************************************************************************)

\* Whether a vendor is among the suggestions.
Lists(suggestions, vendor) ==
    \E n \in 1..Len(suggestions) : suggestions[n].vendor = vendor

\* (C26) After removeBill of a bill of the list, the vendor of the bill is
\* not among the suggested vendors until restoreAllIgnoredVendors, or
\* unignoreVendor of that vendor, is called.
C26_RemovedVendorNotSuggested ==
    lastRemoved # None => ~Lists(Suggested, lastRemoved.vendor)

\* The same for a vendor that normalizeVendor leaves as it is.
C26_RemovedVendorNotSuggested_StableVendor ==
    lastRemoved = None
        \/ normalizeVendor(lastRemoved.vendor) # lastRemoved.vendor
        \/ ~Lists(Suggested, lastRemoved.vendor)

\* A bill was removed, the key of its vendor is ignored, and its vendor is
\* suggested.
C26_RemovedVendorSuggested ==
    /\ lastRemoved # None
    /\ safeKey(lastRemoved.vendor) \in ignoredVendors
    /\ Lists(Suggested, lastRemoved.vendor)

\* (C29) No two bills of the list share an id.
C29_NoTwoBillsShareAnId ==
    \A i, j \in 1..Len(storedBills) : storedBills[i].id = storedBills[j].id => i = j

\* Two bills of one id are in the list.
C29_TwoBillsOfOneId ==
    /\ Len(storedBills) = 2
    /\ storedBills[1].id = storedBills[2].id

\* The suggestions for the same transactions once the bills are others.
SuggestedWith(bills) ==
    suggestedVendors(callArgs.transactions, bills, dismissedSuggestions,
                     ignoredVendors, zoneWest)

\* Whether a step is addFromSuggestion of one of the suggestions and that
\* suggestion's vendor is listed after it.
AddedAndStillListed(suggestions) ==
    \E k \in 1..Len(suggestions) :
        /\ storedBills' = addFromSuggestion(storedBills, suggestions[k], today, tick)
        /\ Lists(SuggestedWith(addFromSuggestion(storedBills, suggestions[k], today, tick)),
                 suggestions[k].vendor)

\* (C30) After addFromSuggestion of a suggestion listed, the vendor of the
\* suggestion is no longer listed for the same transactions.
C30_AddedSuggestionNotListed ==
    [][Len(storedBills') > Len(storedBills) => ~AddedAndStillListed(Suggested)]_vars

\* A bill carries the vendor of a suggestion that is listed.
C30_BillOfListedSuggestion ==
    \E i \in 1..Len(storedBills) :
        storedBills[i].type = <<>> /\ Lists(Suggested, storedBills[i].vendor)

=============================================================================
